---- MODULE Spec2Model ----
(***************************************************************************)
(* Model of the scraping pipeline of spca-ai-assistant: the orchestrator's *)
(* job runs over a transactional store (committed tables and one session's *)
(* uncommitted view), the entity and content sub-pipelines, stale-job      *)
(* reconciliation, and the token-bucket rate limiter.                      *)
(***************************************************************************)
EXTENDS Integers, Sequences, FiniteSets, TLC

\* ------------------------------------------------------------------ bounds
MaxJobs == 2          \* job runs started in one behaviour
MaxTicks == 2         \* clock advances in one behaviour
MaxOther == 1         \* sitemap URLs that are not content URLs (animal, listing, ignored)
burst == 2            \* RateLimiter(burst=...)
MaxTime == 4          \* ticks of the event-loop clock
MaxAcquires == 5      \* completed acquire() calls in one behaviour
MaxCount == 3         \* retry_count reached by direct repository calls
MaxUpserts == 3       \* AnimalRepository.upsert calls in one behaviour
MaxConcurrent == 2    \* largest max_concurrent given to scrape_batch
MaxPages == 3         \* largest max_pages given to scrape_listing_with_pagination
MaxItems == 2         \* most items on one listing page
MaxFullRuns == 3      \* calls of run_full_scrape in one behaviour
MaxListeners == 3     \* registrations held by the emitter at one time
MaxBatch == 2         \* URLs given to filter_scrapable in one call
MaxTriggers == 2      \* times the trigger of one scheduled job fires
MaxBatchSize == 2     \* largest batch_size of a ContentUploader

\* ------------------------------------------------------- program constants
max_retries == 3            \* orchestrator.py:330
StaleMinutes == 60          \* health.py:373  timedelta(hours=1)
CompletedEstimate == 30     \* health.py:396
FailedEstimate == 5         \* health.py:400
TickMinutes == 61           \* one clock advance: just over the staleness threshold
stop_after_attempt == 3     \* base.py:63
wait_min == 2               \* base.py:64  wait_exponential(min=2): seconds before a retry
TokenUnit == 2              \* base.py:22  requests_per_second = 0.5: one token is
                            \* TokenUnit units, one unit is refilled per tick (second)

\* --------------------------------------------------------------- universes
Pets == {"p1", "p2"}                       \* item (detail page) URLs
ContentUrls == {"c1", "c2"}                \* general/service/tips URLs
AllUrls == Pets \cup ContentUrls
UrlOrder == <<"p1", "p2", "c1", "c2">>     \* row order of the scraped_urls table
RefOf == [p \in Pets |-> IF p = "p1" THEN "r1" ELSE "r2"]   \* reference number on the page
Refs == {RefOf[p] : p \in Pets}
ListingUrls == <<"cats", "dogs">>          \* URLCategorizer.ADOPTION_URLS["en"]
JobIds == 1..MaxJobs
Callers == {"a", "b"}                      \* coroutines calling acquire()
Keys == {"name", "age"}                    \* mutable columns of an animal
Values == {"v1", "v2"}                     \* what a scraped page gives for a column
\* the dict given to AnimalRepository.upsert: a reference number (or none)
\* and a value for some of the columns
Data == [ref : Refs \cup {"none"}, fields : [Keys -> Values \cup {"missing"}]]
NoTime == 0 - 1                            \* a NULL timestamp

VARIABLES
    \* committed tables
    jobs, urls, animals,
    \* the run's session: its view of the tables with uncommitted writes, and
    \* the uncommitted statements on its scrape_jobs row
    s_urls, s_animals, job_ops,
    \* the orchestrator call in progress
    pc, variant, jid, next_id, result, now,
    \* _scrape_animals locals
    existing_refs, found_refs, listing, cards, seen_cards, a_cnt,
    \* _scrape_content locals
    categorized, sitemap_total, c_cnt, ci, retry_attempt, failed_urls,
    retried, retry_success,
    \* history, read only by the properties: of the run in progress, and the
    \* number of URLs each job's run scraped
    h, progress,
    \* the RateLimiter object, the clock of the event loop, the callers of
    \* acquire(), and the times at which their calls returned
    tokens, last_update, lock, rl_pc, wake, clock, completions,
    \* the rows of the animals table with their fields, and the data the
    \* calls of AnimalRepository.upsert were given
    records, calls,
    \* scrape_batch: the call's position, its inputs, the semaphore's free
    \* permits, the task of each URL, and the list gather returns
    b_pc, batch, max_concurrent, sem, task, results,
    \* scrape_listing_with_pagination: the call's position, the listing source
    \* (items on each page), the argument max_pages, the locals page and
    \* all_pets, and the page URLs requested so far
    pg_pc, source, max_pages, page, all_pets, requests,
    \* run_full_scrape statement by statement: the next statement, the job
    \* of the call, what was executed so far, and how each call ended
    f_pc, f_job, f_log, f_result,
    \* EventEmitter: the keys and lists of _listeners, _global_listeners, the
    \* position of the emit call, its event type and the tasks it created
    listener_keys, listeners, global_listeners, e_pc, e_type, e_tasks,
    \* URLCategorizer: the URLs given to filter_scrapable and what it returned
    cz_urls, cz_scrapable,
    \* ScrapeScheduler: the scheduler's state, each scheduled callback's state,
    \* how often each was invoked, whether a run of it failed in the
    \* orchestrator, and whether an exception ever left a callback
    sch_state, cb, cb_runs, cb_failed, cb_escaped,
    \* ContentUploader.sync_all_animals: the position of the call, the rows
    \* of the animals table that are AVAILABLE and not synced, the batch being
    \* processed, and the uploader's batch_size
    sy_pc, unsynced, sy_batch, batch_size

dbVars == <<jobs, urls, animals>>
sessVars == <<s_urls, s_animals, job_ops>>
ctlVars == <<pc, variant, jid, next_id, result>>
entVars == <<existing_refs, found_refs, listing, cards, seen_cards, a_cnt>>
conVars == <<categorized, sitemap_total, c_cnt, ci, retry_attempt, failed_urls,
             retried, retry_success>>
pipeVars == <<dbVars, sessVars, ctlVars, now, entVars, conVars, h, progress>>
rlVars == <<tokens, last_update, lock, rl_pc, wake, clock, completions>>
animVars == <<records, calls>>
scrVars == <<b_pc, batch, max_concurrent, sem, task, results>>
pagVars == <<pg_pc, source, max_pages, page, all_pets, requests>>
fullVars == <<f_pc, f_job, f_log, f_result>>
evVars == <<listener_keys, listeners, global_listeners, e_pc, e_type, e_tasks>>
czVars == <<cz_urls, cz_scrapable>>
schVars == <<sch_state, cb, cb_runs, cb_failed, cb_escaped>>
syVars == <<sy_pc, unsynced, sy_batch, batch_size>>
auxVars == <<animVars, scrVars, pagVars, fullVars, evVars, czVars, schVars, syVars>>
vars == <<pipeVars, rlVars, auxVars>>

\* ------------------------------------------------------------ job records
NoJob ==
    [status |-> "absent", started_at |-> NoTime, completed_at |-> NoTime,
     urls_discovered |-> 0, urls_scraped |-> 0, urls_failed |-> 0,
     error_message |-> "none"]

\* ScrapeJobRepository.start_job: the row it inserts
start_job(t) ==
    [NoJob EXCEPT !.status = "running", !.started_at = t]

\* ScrapeJobRepository.complete_job: UPDATE ... WHERE id = job_id
complete_job(row, t, d, s, f) ==
    IF row.status = "absent" THEN row
    ELSE [row EXCEPT !.status = "completed", !.completed_at = t,
                     !.urls_discovered = d, !.urls_scraped = s, !.urls_failed = f]

\* ScrapeJobRepository.fail_job: UPDATE ... WHERE id = job_id
fail_job(row, t, msg) ==
    IF row.status = "absent" THEN row
    ELSE [row EXCEPT !.status = "failed", !.completed_at = t, !.error_message = msg]

InsertOp(t) == [op |-> "insert", at |-> t, d |-> 0, s |-> 0, f |-> 0]
CompleteOp(t, d, s, f) == [op |-> "complete", at |-> t, d |-> d, s |-> s, f |-> f]
FailOp(t) == [op |-> "fail", at |-> t, d |-> 0, s |-> 0, f |-> 0]

ApplyOp(row, o) ==
    CASE o.op = "insert" -> start_job(o.at)
      [] o.op = "complete" -> complete_job(row, o.at, o.d, o.s, o.f)
      [] o.op = "fail" -> fail_job(row, o.at, "exception")

RECURSIVE ApplyOps(_, _)
ApplyOps(row, ops) ==
    IF ops = <<>> THEN row ELSE ApplyOps(ApplyOp(row, Head(ops)), Tail(ops))

\* ------------------------------------------------------------ URL tracking
NoUrl == [st |-> "absent", rc |-> 0, ty |-> "none"]
TypeOf(u) == IF u \in Pets THEN "animal" ELSE "general"

\* ScrapedURLRepository.upsert
upsert(tbl, u, ty) ==
    IF tbl[u].st = "absent"
    THEN [tbl EXCEPT ![u] = [st |-> "pending", rc |-> 0, ty |-> ty]]
    ELSE [tbl EXCEPT ![u].ty = ty]

\* mark_success that also clears the retry_count
mark_success_reset(tbl, u) ==
    IF tbl[u].st = "absent" THEN tbl ELSE [tbl EXCEPT ![u].st = "success", ![u].rc = 0]

\* ScrapedURLRepository.mark_success
mark_success(tbl, u) ==
    IF tbl[u].st = "absent" THEN tbl ELSE [tbl EXCEPT ![u].st = "success"]

\* mark_failed without the retry_count increment
mark_failed_status_only(tbl, u) ==
    IF tbl[u].st = "absent" THEN tbl ELSE [tbl EXCEPT ![u].st = "failed"]

\* ScrapedURLRepository.mark_failed
mark_failed(tbl, u) ==
    IF tbl[u].st = "absent" THEN tbl
    ELSE [tbl EXCEPT ![u].st = "failed", ![u].rc = @ + 1]

\* get_failed without the retry_count condition
get_failed_uncapped(tbl, maxr) ==
    SelectSeq(UrlOrder, LAMBDA u : tbl[u].st = "failed")

\* ScrapedURLRepository.get_failed
get_failed(tbl, maxr) ==
    SelectSeq(UrlOrder, LAMBDA u : tbl[u].st = "failed" /\ tbl[u].rc < maxr)

\* ----------------------------------------------------------------- animals
\* an upsert that writes the status AVAILABLE into the record it finds
animal_upsert_available(tbl, r) == [tbl EXCEPT ![r] = "available"]

\* AnimalRepository.upsert: a new record is AVAILABLE (the column default); an
\* existing record keeps its status (the scraped data carries no status)
animal_upsert(tbl, r) ==
    IF tbl[r] = "absent" THEN [tbl EXCEPT ![r] = "available"] ELSE tbl

\* AnimalRepository.mark_adopted
mark_adopted(tbl, r) ==
    IF tbl[r] = "absent" THEN tbl ELSE [tbl EXCEPT ![r] = "adopted"]

\* AnimalRepository.get_all_reference_numbers
get_all_reference_numbers(tbl) == {r \in Refs : tbl[r] # "absent"}

\* every known reference, whether found or not
adopted_refs_all(existing, found) == existing

\* the set difference of _scrape_animals
adopted_refs(existing, found) == existing \ found

RECURSIVE MarkAll(_, _)
MarkAll(tbl, rs) ==
    IF rs = {} THEN tbl
    ELSE LET r == CHOOSE x \in rs : TRUE IN MarkAll(mark_adopted(tbl, r), rs \ {r})

\* ------------------------------------------------------------- the session
\* session.commit(): every uncommitted write becomes the committed state
Commit(su, sa) ==
    /\ urls' = su
    /\ animals' = sa
    /\ jobs' = IF jid \in JobIds THEN [jobs EXCEPT ![jid] = ApplyOps(@, job_ops)] ELSE jobs
    /\ job_ops' = <<>>

\* session.rollback(): every uncommitted write is discarded
Rollback ==
    /\ s_urls' = urls
    /\ s_animals' = animals
    /\ job_ops' = <<>>
    /\ UNCHANGED dbVars

ZeroCnt == [discovered |-> 0, scraped |-> 0, failed |-> 0]

\* history: what the run has recorded, for the properties
NoHist ==
    [pre_animals |-> [r \in Refs |-> "absent"],
     pre_rc |-> [u \in AllUrls |-> 0],
     save_failed |-> {},
     rounds |-> 0,
     prev_success |-> 0 - 1,
     round_set |-> {},
     attempted |-> <<>>]

OrderOf(S) == SelectSeq(UrlOrder, LAMBDA u : u \in S)

\* ---------------------------------------------------------------- initial
\* RateLimiter.__init__
RlInit ==
    /\ tokens = burst * TokenUnit
    /\ last_update = 0
    /\ lock = "none"
    /\ rl_pc = [c \in Callers |-> "ready"]
    /\ wake = 0
    /\ clock = 0
    /\ completions = <<>>

\* two of the event types of events.py 10-22, and two handlers
EventTypes == {"scrape_completed", "sync_required"}
Handlers == {"h1", "h2"}

\* scheduler.py 47-73: the ids of the scheduled jobs
SchedJobs == {"animal_scrape", "content_scrape", "sitemap_refresh"}

\* the rows of the animals table, in the order a SELECT returns them
SyncRows == <<"a1", "a2", "a3", "a4">>

\* no result yet
NoResult == [url |-> "none", success |-> FALSE, error |-> "none"]

\* a task of scrape_batch that has not started
NoTask == [st |-> "none", attempts |-> 0, acquires |-> 0, prev |-> "none",
           until |-> 0, result |-> NoResult]

\* the component models at rest
AuxInit ==
    /\ records = <<>>
    /\ calls = <<>>
    /\ b_pc = "idle" /\ batch = <<>> /\ max_concurrent = 0 /\ sem = 0
    /\ task = [c \in Callers |-> NoTask]
    /\ results = <<>>
    /\ pg_pc = "idle" /\ source = [p \in 1..(MaxPages + 1) |-> 0] /\ max_pages = 0
    /\ page = 0 /\ all_pets = <<>> /\ requests = <<>>
    /\ f_pc = 0 /\ f_job = 0 /\ f_log = <<>>
    /\ f_result = [j \in 1..MaxFullRuns |-> "none"]
    /\ listener_keys = {} /\ listeners = [t \in EventTypes |-> <<>>]
    /\ global_listeners = <<>>
    /\ e_pc = "idle" /\ e_type = "none" /\ e_tasks = <<>>
    /\ cz_urls = <<>> /\ cz_scrapable = <<>>
    /\ sch_state = "new"
    /\ cb = [j \in SchedJobs |-> "idle"]
    /\ cb_runs = [j \in SchedJobs |-> 0]
    /\ cb_failed = [j \in SchedJobs |-> FALSE]
    /\ cb_escaped = FALSE
    /\ sy_pc = "idle" /\ unsynced = {} /\ sy_batch = <<>> /\ batch_size = 1

\* An empty job and URL-tracking table, no run in progress
PipeInit ==
    /\ jobs = [j \in JobIds |-> NoJob]
    /\ urls = [u \in AllUrls |-> NoUrl]
    /\ s_urls = urls
    /\ s_animals = animals
    /\ job_ops = <<>>
    /\ pc = "idle" /\ variant = "none" /\ jid = 0 /\ next_id = 1
    /\ result = "none" /\ now = 0
    /\ existing_refs = {} /\ found_refs = {} /\ listing = 1 /\ cards = <<>>
    /\ seen_cards = {} /\ a_cnt = ZeroCnt
    /\ categorized = <<>> /\ sitemap_total = 0 /\ c_cnt = ZeroCnt /\ ci = 1
    /\ retry_attempt = 1 /\ failed_urls = <<>> /\ retried = 0 /\ retry_success = 0
    /\ h = NoHist
    /\ progress = [j \in JobIds |-> FALSE]

\* The animals table holds what earlier runs stored (any subset of the
\* references, available)
Init ==
    /\ animals \in [Refs -> {"absent", "available"}]
    /\ PipeInit
    /\ RlInit
    /\ AuxInit

\* An empty animals table
InitEmpty ==
    /\ animals = [r \in Refs |-> "absent"]
    /\ PipeInit
    /\ RlInit
    /\ AuxInit

ResetLocals ==
    /\ existing_refs' = {} /\ found_refs' = {} /\ listing' = 1 /\ cards' = <<>>
    /\ seen_cards' = {} /\ a_cnt' = ZeroCnt
    /\ categorized' = <<>> /\ sitemap_total' = 0 /\ c_cnt' = ZeroCnt /\ ci' = 1
    /\ retry_attempt' = 1 /\ failed_urls' = <<>> /\ retried' = 0 /\ retry_success' = 0

\* --------------------------------------------------- run_*: start of a run
\* orchestrator.py 44-48, 105-111, 144-150: open the session, start_job
\* (flushed, not committed), emit SCRAPE_STARTED
StartRun(v) ==
    /\ pc = "idle"
    /\ jid' = next_id /\ next_id' = next_id + 1
    /\ variant' = v /\ result' = "none"
    /\ s_urls' = urls /\ s_animals' = animals
    /\ job_ops' = <<InsertOp(now)>>
    /\ pc' = IF v = "animals" THEN "animals" ELSE "discover"
    /\ ResetLocals
    /\ h' = [NoHist EXCEPT !.pre_rc = [u \in AllUrls |-> urls[u].rc]]
    /\ UNCHANGED <<dbVars, now, progress>>
    /\ UNCHANGED <<rlVars, auxVars>>

\* SitemapCrawler.discover_and_categorize: the content URLs of the sitemap in
\* priority order, and the count of all URLs of the sitemap; a failed
\* discovery is the empty sitemap
Discover(S, k) ==
    /\ pc = "discover"
    /\ variant = "content" => k = 0      \* run_content_scrape does not read the total
    /\ categorized' = OrderOf(S)
    /\ sitemap_total' = Cardinality(S) + k
    /\ c_cnt' = [ZeroCnt EXCEPT !.discovered = Cardinality(S)]
    /\ ci' = 1
    /\ pc' = IF variant = "full" THEN "animals"
             ELSE IF S = {} THEN "round" ELSE "content"
    /\ UNCHANGED <<dbVars, sessVars, variant, jid, next_id, result, now, entVars,
                   retry_attempt, failed_urls, retried, retry_success, h, progress>>
    /\ UNCHANGED <<rlVars, auxVars>>

\* sitemap_crawler.py 20-32: discover_urls returns the URLs of the sitemap,
\* and the empty list when fetching or parsing it raised
discover_urls(fetch) ==
    IF fetch.raised THEN [raised |-> FALSE, urls |-> {}] ELSE fetch

\* sitemap_crawler.py 30-37, orchestrator.py 52, 154: fetching or parsing the
\* sitemap raised; the run goes on with what discover_urls returned
DiscoverError ==
    LET d == discover_urls([raised |-> TRUE, urls |-> {}])
    IN IF d.raised
       THEN /\ pc = "discover"
            /\ pc' = "except"
            /\ UNCHANGED <<dbVars, sessVars, variant, jid, next_id, result, now, entVars,
                           conVars, h, progress>>
            /\ UNCHANGED <<rlVars, auxVars>>
       ELSE Discover(d.urls, 0)

\* -------------------------------------------------------- _scrape_animals
\* orchestrator.py 186-192: the references known before the run
AnimalsBegin ==
    /\ pc = "animals"
    /\ existing_refs' = get_all_reference_numbers(s_animals)
    /\ found_refs' = {}
    /\ listing' = 1
    /\ pc' = "listing"
    /\ h' = [h EXCEPT !.pre_animals = s_animals]
    /\ UNCHANGED <<dbVars, sessVars, variant, jid, next_id, result, now, cards,
                   seen_cards, a_cnt, conVars, progress>>
    /\ UNCHANGED <<rlVars, auxVars>>

\* get_all_reference_numbers raises (the store is unreachable): the exception
\* leaves _scrape_animals and reaches the handler of run_*
AnimalsBeginError ==
    /\ pc = "animals"
    /\ pc' = "except"
    /\ UNCHANGED <<dbVars, sessVars, variant, jid, next_id, result, now, entVars,
                   conVars, h, progress>>
    /\ UNCHANGED <<rlVars, auxVars>>

\* orchestrator.py 203-204: scrape_listing_with_pagination returns the cards
\* of one listing (pets no other listing of this run has listed)
ScrapeListing(S) ==
    /\ pc = "listing" /\ listing <= Len(ListingUrls)
    /\ S \subseteq Pets \ seen_cards
    /\ seen_cards' = seen_cards \cup S
    /\ a_cnt' = [a_cnt EXCEPT !.discovered = @ + Cardinality(S)]
    /\ cards' = OrderOf(S)
    /\ IF S = {} THEN listing' = listing + 1 /\ pc' = "listing"
                 ELSE listing' = listing /\ pc' = "cards"
    /\ UNCHANGED <<dbVars, sessVars, variant, jid, next_id, result, now,
                   existing_refs, found_refs, conVars, h, progress>>
    /\ UNCHANGED <<rlVars, auxVars>>

\* orchestrator.py 257-258: the listing scrape raises; the listing is skipped
ListingRaised ==
    /\ pc = "listing" /\ listing <= Len(ListingUrls)
    /\ listing' = listing + 1
    /\ UNCHANGED <<dbVars, sessVars, ctlVars, now, existing_refs, found_refs,
                   cards, seen_cards, a_cnt, conVars, h, progress>>
    /\ UNCHANGED <<rlVars, auxVars>>

\* the for loop over pet_cards moves on; after the last card, the next listing
NextCard ==
    /\ cards' = Tail(cards)
    /\ IF Tail(cards) = <<>> THEN listing' = listing + 1 /\ pc' = "listing"
                             ELSE listing' = listing /\ pc' = "cards"

\* orchestrator.py 213-241: the item is scraped, saved and committed; then
\* mark_success is executed, uncommitted
CardSaved ==
    /\ pc = "cards" /\ cards # <<>>
    /\ LET p == Head(cards)
           su == upsert(s_urls, p, "animal")
           sa == animal_upsert(s_animals, RefOf[p])
       IN /\ Commit(su, sa)
          /\ s_animals' = sa
          /\ s_urls' = mark_success(su, p)
          /\ a_cnt' = [a_cnt EXCEPT !.scraped = @ + 1]
          /\ found_refs' = found_refs \cup {RefOf[p]}
          /\ UNCHANGED h
    /\ NextCard
    /\ UNCHANGED <<variant, jid, next_id, result, now, existing_refs, seen_cards,
                   conVars, progress>>
    /\ UNCHANGED <<rlVars, auxVars>>

\* orchestrator.py 242-245: animal_repo.upsert or the commit raises; the
\* session is rolled back and the item counted as failed
CardSaveError ==
    /\ pc = "cards" /\ cards # <<>>
    /\ Rollback
    /\ a_cnt' = [a_cnt EXCEPT !.failed = @ + 1]
    /\ h' = [h EXCEPT !.save_failed = @ \cup {Head(cards)}]
    /\ NextCard
    /\ UNCHANGED <<variant, jid, next_id, result, now, existing_refs, found_refs,
                   seen_cards, conVars, progress>>
    /\ UNCHANGED <<rlVars, auxVars>>

\* what both failure branches do: failed += 1, mark_failed, no commit
CardFailed ==
    /\ pc = "cards" /\ cards # <<>>
    /\ LET p == Head(cards)
       IN /\ s_urls' = mark_failed(upsert(s_urls, p, "animal"), p)
          /\ UNCHANGED h
    /\ a_cnt' = [a_cnt EXCEPT !.failed = @ + 1]
    /\ NextCard
    /\ UNCHANGED <<dbVars, s_animals, job_ops, variant, jid, next_id, result, now,
                   existing_refs, found_refs, seen_cards, conVars, progress>>
    /\ UNCHANGED <<rlVars, auxVars>>

\* orchestrator.py 246-250: the detail page result has success = false
CardNotSuccess == CardFailed

\* orchestrator.py 252-255: scrape_animal_page raises
CardScrapeRaised == CardFailed

\* orchestrator.py 260-274: mark the references not found as adopted, commit
MarkAdopted ==
    /\ pc = "listing" /\ listing > Len(ListingUrls)
    /\ LET sa == MarkAll(s_animals, adopted_refs(existing_refs, found_refs))
       IN /\ Commit(s_urls, sa)
          /\ s_animals' = sa
    /\ pc' = "animals_done"
    /\ UNCHANGED <<s_urls, variant, jid, next_id, result, now, entVars, conVars,
                   h, progress>>
    /\ UNCHANGED <<rlVars, auxVars>>

\* orchestrator.py 269-274: _scrape_animals returns its counts; its other
\* locals are gone
AnimalsReturn ==
    /\ pc = "animals_done"
    /\ pc' = IF variant = "animals" THEN "complete"
             ELSE IF categorized = <<>> THEN "round" ELSE "content"
    /\ existing_refs' = {} /\ found_refs' = {} /\ listing' = 1 /\ cards' = <<>>
    /\ seen_cards' = {}
    /\ h' = [h EXCEPT !.pre_animals = NoHist.pre_animals, !.save_failed = {}]
    /\ UNCHANGED <<dbVars, sessVars, variant, jid, next_id, result, now, a_cnt,
                   conVars, progress>>
    /\ UNCHANGED <<rlVars, auxVars>>

\* mark_adopted or the commit of line 267 raises
MarkAdoptedError ==
    /\ pc = "listing" /\ listing > Len(ListingUrls)
    /\ pc' = "except"
    /\ UNCHANGED <<dbVars, sessVars, variant, jid, next_id, result, now, entVars,
                   conVars, h, progress>>
    /\ UNCHANGED <<rlVars, auxVars>>

\* -------------------------------------------------------- _scrape_content
NextUrl ==
    /\ ci' = ci + 1
    /\ pc' = IF ci + 1 > Len(categorized) THEN "round" ELSE "content"

\* orchestrator.py 295-310: phase 1, the URL is scraped and saved
P1Success ==
    /\ pc = "content" /\ ci <= Len(categorized)
    /\ LET u == categorized[ci]
           su == mark_success(upsert(s_urls, u, TypeOf(u)), u)
       IN /\ s_urls' = su
          /\ Commit(su, s_animals)
          /\ UNCHANGED h
    /\ c_cnt' = [c_cnt EXCEPT !.scraped = @ + 1]
    /\ NextUrl
    /\ UNCHANGED <<s_animals, variant, jid, next_id, result, now, entVars,
                   categorized, sitemap_total, retry_attempt, failed_urls, retried,
                   retry_success, progress>>
    /\ UNCHANGED <<rlVars, auxVars>>

\* what both failure branches of phase 1 do: failed += 1, mark_failed, commit
P1Failed ==
    /\ pc = "content" /\ ci <= Len(categorized)
    /\ LET u == categorized[ci]
           su == mark_failed(upsert(s_urls, u, TypeOf(u)), u)
       IN /\ s_urls' = su
          /\ Commit(su, s_animals)
          /\ UNCHANGED h
    /\ c_cnt' = [c_cnt EXCEPT !.failed = @ + 1]
    /\ NextUrl
    /\ UNCHANGED <<s_animals, variant, jid, next_id, result, now, entVars,
                   categorized, sitemap_total, retry_attempt, failed_urls, retried,
                   retry_success, progress>>
    /\ UNCHANGED <<rlVars, auxVars>>

\* orchestrator.py 311-315: the result has success = false
P1NotSuccess == P1Failed

\* orchestrator.py 317-322: scrape_and_save raises; mark_failed and its commit
\* go through (a store failure inside the handler, 323-326, is left out)
P1Raised == P1Failed

\* the break condition of a retry round (orchestrator.py 387)
RoundStops(successes, attempts) == successes = 0 /\ attempts > 0

\* orchestrator.py 331-341: a retry round begins with the retryable failed URLs
RoundBegin ==
    /\ pc = "round" /\ retry_attempt <= max_retries
    /\ get_failed(s_urls, max_retries) # <<>>
    /\ failed_urls' = get_failed(s_urls, max_retries)
    /\ retried' = 0 /\ retry_success' = 0
    /\ pc' = "retry"
    /\ h' = [h EXCEPT !.rounds = @ + 1,
                      !.round_set = {u \in AllUrls : s_urls[u].st = "failed"
                                                      /\ s_urls[u].rc < max_retries},
                      !.attempted = <<>>]
    /\ UNCHANGED <<dbVars, sessVars, variant, jid, next_id, result, now, entVars,
                   categorized, sitemap_total, c_cnt, ci, retry_attempt, progress>>
    /\ UNCHANGED <<rlVars, auxVars>>

\* orchestrator.py 331, 335-337: the rounds are used up, or there is nothing to
\* retry and the loop is left
RoundNothingFailed ==
    /\ pc = "round"
    /\ retry_attempt > max_retries \/ get_failed(s_urls, max_retries) = <<>>
    /\ pc' = "content_end"
    /\ UNCHANGED <<dbVars, sessVars, variant, jid, next_id, result, now, entVars,
                   conVars, h, progress>>
    /\ UNCHANGED <<rlVars, auxVars>>

\* get_failed raises (the store is unreachable): the exception leaves
\* _scrape_content and reaches the handler of run_*
GetFailedError ==
    /\ pc = "round" /\ retry_attempt <= max_retries
    /\ pc' = "except"
    /\ UNCHANGED <<dbVars, sessVars, variant, jid, next_id, result, now, entVars,
                   conVars, h, progress>>
    /\ UNCHANGED <<rlVars, auxVars>>

\* orchestrator.py 353-367, 373: the retry succeeds
RetrySuccess ==
    /\ pc = "retry" /\ failed_urls # <<>>
    /\ LET u == Head(failed_urls)
           su == mark_success(s_urls, u)
       IN /\ s_urls' = su
          /\ Commit(su, s_animals)
          /\ h' = [h EXCEPT !.attempted = Append(@, u)]
    /\ retry_success' = retry_success + 1
    /\ retried' = retried + 1
    /\ c_cnt' = [c_cnt EXCEPT !.scraped = @ + 1, !.failed = @ - 1]
    /\ failed_urls' = Tail(failed_urls)
    /\ UNCHANGED <<s_animals, ctlVars, now, entVars, categorized, sitemap_total,
                   ci, retry_attempt, progress>>
    /\ UNCHANGED <<rlVars, auxVars>>

\* orchestrator.py 368-373: the retry result has success = false
RetryNotSuccess ==
    /\ pc = "retry" /\ failed_urls # <<>>
    /\ LET u == Head(failed_urls)
           su == mark_failed(s_urls, u)
       IN /\ s_urls' = su
          /\ Commit(su, s_animals)
          /\ h' = [h EXCEPT !.attempted = Append(@, u)]
    /\ retried' = retried + 1
    /\ failed_urls' = Tail(failed_urls)
    /\ UNCHANGED <<s_animals, ctlVars, now, entVars, categorized, sitemap_total,
                   c_cnt, ci, retry_attempt, retry_success, progress>>
    /\ UNCHANGED <<rlVars, auxVars>>

\* orchestrator.py 375-379: scrape_and_save raises during the retry; the
\* statement retried += 1 is not reached
RetryRaised ==
    /\ pc = "retry" /\ failed_urls # <<>>
    /\ LET u == Head(failed_urls)
           su == mark_failed(s_urls, u)
       IN /\ s_urls' = su
          /\ Commit(su, s_animals)
          /\ h' = [h EXCEPT !.attempted = Append(@, u)]
    /\ failed_urls' = Tail(failed_urls)
    /\ UNCHANGED <<s_animals, ctlVars, now, entVars, categorized, sitemap_total,
                   c_cnt, ci, retry_attempt, retried, retry_success, progress>>
    /\ UNCHANGED <<rlVars, auxVars>>

\* orchestrator.py 387-389: no retry of the round succeeded, the loop is left
RoundBreak ==
    /\ pc = "retry" /\ failed_urls = <<>>
    /\ RoundStops(retry_success, retried)
    /\ pc' = "content_end"
    /\ h' = [h EXCEPT !.prev_success = retry_success, !.round_set = {},
                      !.attempted = <<>>]
    /\ UNCHANGED <<dbVars, sessVars, variant, jid, next_id, result, now, entVars,
                   conVars, progress>>
    /\ UNCHANGED <<rlVars, auxVars>>

\* the for loop over retry_attempt moves on to the next round
RoundContinue ==
    /\ pc = "retry" /\ failed_urls = <<>>
    /\ ~RoundStops(retry_success, retried)
    /\ retry_attempt' = retry_attempt + 1
    /\ pc' = "round"
    /\ h' = [h EXCEPT !.prev_success = retry_success, !.round_set = {},
                      !.attempted = <<>>]
    /\ UNCHANGED <<dbVars, sessVars, variant, jid, next_id, result, now, entVars,
                   categorized, sitemap_total, c_cnt, ci, failed_urls, retried,
                   retry_success, progress>>
    /\ UNCHANGED <<rlVars, auxVars>>

\* orchestrator.py 391-403: the final commit, the counts are returned
ContentEnd ==
    /\ pc = "content_end"
    /\ Commit(s_urls, s_animals)
    /\ pc' = "complete"
    /\ UNCHANGED <<s_urls, s_animals, variant, jid, next_id, result, now, entVars,
                   conVars, h, progress>>
    /\ UNCHANGED <<rlVars, auxVars>>

\* ------------------------------------------------------- run_*: the end
\* the call is over: its locals are gone; the history keeps whether the run
\* scraped at least one URL
EndRun(how) ==
    /\ pc' = "idle" /\ result' = how
    /\ progress' = [progress EXCEPT ![jid] = a_cnt.scraped + c_cnt.scraped > 0]
    /\ ResetLocals
    /\ h' = NoHist
    /\ variant' = "none"
    /\ UNCHANGED <<jid, next_id, now>>

\* the counts each variant hands to complete_job
JobCounts ==
    IF variant = "full"
    THEN [discovered |-> sitemap_total,
          scraped |-> a_cnt.scraped + c_cnt.scraped,
          failed |-> a_cnt.failed + c_cnt.failed]
    ELSE IF variant = "animals" THEN a_cnt ELSE c_cnt

\* orchestrator.py 65-91, 116-130, 157-171 and session.py 103: complete_job,
\* the events, the return, and the commit of get_session
CompleteRun ==
    /\ pc = "complete"
    /\ LET c == JobCounts
           ops == Append(job_ops, CompleteOp(now, c.discovered, c.scraped, c.failed))
       IN /\ jobs' = [jobs EXCEPT ![jid] = ApplyOps(@, ops)]
          /\ urls' = s_urls /\ animals' = s_animals
          /\ job_ops' = <<>>
    /\ s_urls' = s_urls /\ s_animals' = s_animals
    /\ EndRun("completed")
    /\ UNCHANGED <<rlVars, auxVars>>

\* what get_session does with the statements of the handler when the
\* exception passes through it (session.py 104-106): rollback
SessionOnException(ops) == <<>>

\* orchestrator.py 93-99, 132-138, 173-179 and session.py 104-108: fail_job is
\* executed in the session, SCRAPE_FAILED emitted, the exception re-raised;
\* get_session rolls the session back and re-raises
ExceptRun ==
    /\ pc = "except"
    /\ LET ops == SessionOnException(Append(job_ops, FailOp(now)))
       IN /\ jobs' = [jobs EXCEPT ![jid] = ApplyOps(@, ops)]
          /\ IF ops = <<>> THEN urls' = urls /\ animals' = animals
                           ELSE urls' = s_urls /\ animals' = s_animals
    /\ s_urls' = urls' /\ s_animals' = animals'
    /\ job_ops' = <<>>
    /\ EndRun("raised")
    /\ UNCHANGED <<rlVars, auxVars>>

\* the process dies during a run: the session's transaction is never
\* committed
Crash ==
    /\ pc \notin {"idle"}
    /\ s_urls' = urls /\ s_animals' = animals /\ job_ops' = <<>>
    /\ EndRun("crashed")
    /\ UNCHANGED dbVars
    /\ UNCHANGED <<rlVars, auxVars>>

\* ------------------------------------------------ time and fix_stale_jobs
\* health.py 373-381: the jobs the reconciliation selects
StaleJobs == {j \in JobIds : jobs[j].status = "running"
                              /\ jobs[j].started_at < now - StaleMinutes}

\* The clock is read only by the staleness test of fix_stale_jobs and written
\* into timestamps, so its advance is modelled while a RUNNING job that is
\* not yet stale is in the table.
Tick ==
    /\ now + TickMinutes <= MaxTicks * TickMinutes
    /\ \E j \in JobIds : jobs[j].status = "running" /\ j \notin StaleJobs
    /\ now' = now + TickMinutes
    /\ UNCHANGED <<dbVars, sessVars, ctlVars, entVars, conVars, h, progress>>
    /\ UNCHANGED <<rlVars, auxVars>>

\* the reconciliation without the synthetic timestamp
fix_stale_job_no_timestamp(job) ==
    [job EXCEPT !.status = "failed", !.error_message = "timed_out"]

\* health.py 394-402: what it does to one of them
fix_stale_job(job) ==
    IF job.urls_scraped > 0
    THEN [job EXCEPT !.status = "completed",
                     !.completed_at = job.started_at + CompletedEstimate]
    ELSE [job EXCEPT !.status = "failed",
                     !.completed_at = job.started_at + FailedEstimate,
                     !.error_message = "timed_out"]

\* health.py 369-420, with stale jobs: each is marked, one commit
fix_stale_jobs ==
    /\ StaleJobs # {}
    /\ jobs' = [j \in JobIds |-> IF j \in StaleJobs THEN fix_stale_job(jobs[j])
                                  ELSE jobs[j]]
    /\ UNCHANGED <<urls, animals, sessVars, ctlVars, now, entVars, conVars, h, progress>>
    /\ UNCHANGED <<rlVars, auxVars>>

\* health.py 383-388: no stale job, nothing is written
fix_stale_jobs_none ==
    /\ StaleJobs = {}
    /\ UNCHANGED vars

\* ------------------------------------------------------------ RateLimiter
\* a refill without the cap
Refill_uncapped(tok, time_passed) == tok + time_passed

\* base.py 32-36: the refill, capped at burst
Refill(tok, time_passed) ==
    LET t == tok + time_passed IN IF t < burst * TokenUnit THEN t ELSE burst * TokenUnit

\* base.py 39: wait_time = (1 - tokens) / requests_per_second, in ticks
WaitTime(tok) == TokenUnit - tok

\* A coroutine calls acquire() and reaches "async with self._lock"
AcquireCall(c) ==
    /\ rl_pc[c] = "ready"
    /\ Len(completions) + Cardinality({x \in Callers : rl_pc[x] # "ready"}) < MaxAcquires
    /\ rl_pc' = [rl_pc EXCEPT ![c] = "waiting"]
    /\ UNCHANGED <<tokens, last_update, lock, wake, clock, completions, pipeVars, auxVars>>

\* a lock that never reports being held
locked_never(l) == FALSE

\* base.py 27, 31: asyncio.Lock, held from the entry of the async with block
\* to its exit
locked(l) == l # "none"

\* base.py 30-43: the lock is taken, the bucket refilled and last_update set;
\* with a token the caller consumes it and leaves, without one it goes to
\* sleep holding the lock
AcquireEnter(c) ==
    /\ rl_pc[c] = "waiting" /\ ~locked(lock)
    /\ LET t == Refill(tokens, clock - last_update)
       IN /\ last_update' = clock
          /\ IF t < TokenUnit
             THEN /\ tokens' = t
                  /\ lock' = c
                  /\ wake' = clock + WaitTime(t)
                  /\ rl_pc' = [rl_pc EXCEPT ![c] = "sleeping"]
                  /\ UNCHANGED completions
             ELSE /\ tokens' = t - TokenUnit
                  /\ rl_pc' = [rl_pc EXCEPT ![c] = "ready"]
                  /\ completions' = Append(completions, clock)
                  /\ UNCHANGED <<lock, wake>>
    /\ UNCHANGED <<clock, pipeVars, auxVars>>

\* base.py 40-41: asyncio.sleep returns (at its deadline or later), tokens is
\* set to 0, the lock released
AcquireWake(c) ==
    /\ rl_pc[c] = "sleeping" /\ clock >= wake
    /\ tokens' = 0
    /\ lock' = "none"
    /\ rl_pc' = [rl_pc EXCEPT ![c] = "ready"]
    /\ completions' = Append(completions, clock)
    /\ UNCHANGED <<last_update, wake, clock, pipeVars, auxVars>>

\* the event-loop clock advances by one tick
ClockTick ==
    /\ clock < MaxTime
    /\ clock' = clock + 1
    /\ UNCHANGED <<tokens, last_update, lock, rl_pc, wake, completions, pipeVars, auxVars>>

\* ------------------------------------------- URL-tracking, called directly
\* Any sequence of ScrapedURLRepository calls in one session
RepoUpsert(u) ==
    /\ s_urls' = upsert(s_urls, u, TypeOf(u))
    /\ UNCHANGED <<dbVars, s_animals, job_ops, ctlVars, now, entVars, conVars, h,
                   progress, rlVars, auxVars>>

RepoMarkSuccess(u) ==
    /\ s_urls' = mark_success(s_urls, u)
    /\ UNCHANGED <<dbVars, s_animals, job_ops, ctlVars, now, entVars, conVars, h,
                   progress, rlVars, auxVars>>

RepoMarkFailed(u) ==
    /\ s_urls[u].rc < MaxCount
    /\ s_urls' = mark_failed(s_urls, u)
    /\ UNCHANGED <<dbVars, s_animals, job_ops, ctlVars, now, entVars, conVars, h,
                   progress, rlVars, auxVars>>

\* --------------------------------------------- AnimalRepository.upsert
\* animal_repository.py 111: get_by_reference, the first row of the reference
RowOf(tbl, r) ==
    IF \E i \in 1..Len(tbl) : tbl[i].ref = r
    THEN CHOOSE i \in 1..Len(tbl) : tbl[i].ref = r /\ \A k \in 1..(i - 1) : tbl[k].ref # r
    ELSE 0

\* upsert that always inserts
upsert_record_insert(tbl, d) ==
    Append(tbl, [ref |-> d.ref,
                 fields |-> [k \in Keys |-> IF d.fields[k] = "missing" THEN "null"
                                            ELSE d.fields[k]],
                 status |-> "available"])

\* animal_repository.py 111-128: an existing row gets every column the dict
\* holds; otherwise a row is created from the dict, columns it lacks NULL
upsert_record(tbl, d) ==
    LET i == RowOf(tbl, d.ref)
    IN IF i # 0
       THEN [tbl EXCEPT ![i].fields = [k \in Keys |-> IF d.fields[k] = "missing" THEN @[k]
                                                      ELSE d.fields[k]]]
       ELSE Append(tbl, [ref |-> d.ref,
                         fields |-> [k \in Keys |-> IF d.fields[k] = "missing" THEN "null"
                                                    ELSE d.fields[k]],
                         status |-> "available"])

\* AnimalRepository.upsert is called with a dict that has a reference number
UpsertCall(d) ==
    /\ Len(calls) < MaxUpserts
    /\ d.ref # "none"
    /\ records' = upsert_record(records, d)
    /\ calls' = Append(calls, d)
    /\ UNCHANGED <<pipeVars, rlVars, scrVars, pagVars, fullVars, evVars, czVars, schVars, syVars>>

\* animal_repository.py 107-109: without a reference number it raises
UpsertNoReference(d) ==
    /\ Len(calls) < MaxUpserts
    /\ d.ref = "none"
    /\ calls' = Append(calls, d)
    /\ UNCHANGED <<records, pipeVars, rlVars, scrVars, pagVars, fullVars, evVars, czVars, schVars, syVars>>

\* ------------------------------------------ BaseScraper.scrape_batch
\* what one fetch attempt (_do_scrape under wait_for) can end with: a result
\* with success true or false, ConnectionError or OSError, the timeout of
\* wait_for, or any other exception
Outcomes == {"success", "not_success", "network_error", "timeout", "other_error"}

\* base.py 78-80: asyncio.TimeoutError becomes TimeoutError; everything else
\* leaves scrape as it is
Raised(o) ==
    CASE o = "timeout" -> "TimeoutError"
      [] o = "network_error" -> "OSError"
      [] o = "other_error" -> "Exception"
      [] OTHER -> "none"

\* retry on every exception
retry_if_any_exception(exc) == exc # "none"

\* base.py 65: retry_if_exception_type((ConnectionError, TimeoutError, OSError))
retry_if_exception_type(exc) == exc \in {"TimeoutError", "OSError"}

\* a retry that goes on after the rate limiter
retry_entry_after_acquire == "acquiring"

\* base.py 62-69: tenacity calls the whole of scrape again, acquire() first
retry_entry == "attempt"

\* a semaphore that gives its permit away without counting
take_permit_uncounted(n) == n

\* base.py 96: async with semaphore
take_permit(n) == n - 1

\* base.py 72-77: the result the strategy returned is returned as it is
strategy_result(c, o) == [url |-> c, success |-> (o = "success"), error |-> "none"]

\* base.py 100-101: the exception is turned into a failed result for the URL
caught_result(c, exc) == [url |-> c, success |-> FALSE, error |-> exc]

\* gather that keeps the successful results only
gather_successful(b, t) ==
    SelectSeq([i \in 1..Len(b) |-> t[b[i]].result], LAMBDA r : r.success)

\* base.py 103-104: asyncio.gather, one result per task in input order
gather(b, t) == [i \in 1..Len(b) |-> t[b[i]].result]

\* the sequences of distinct URLs
Batches == {<<>>} \cup {<<c>> : c \in Callers}
              \cup {x \in Callers \X Callers : x[1] # x[2]}

\* base.py 87-104: scrape_batch is called; the semaphore and the tasks are made
StartBatch(b, m) ==
    /\ b_pc = "idle"
    /\ batch' = b /\ max_concurrent' = m /\ sem' = m
    /\ task' = [c \in Callers |->
                   IF \E i \in 1..Len(b) : b[i] = c
                   THEN [NoTask EXCEPT !.st = "new"] ELSE NoTask]
    /\ b_pc' = "running"
    /\ UNCHANGED <<results, pipeVars, rlVars, animVars, pagVars, fullVars, evVars, czVars, schVars, syVars>>

\* base.py 96: the task enters the semaphore
TakeSemaphore(c) ==
    /\ b_pc = "running" /\ task[c].st = "new"
    /\ sem > 0
    /\ sem' = take_permit(sem)
    /\ task' = [task EXCEPT ![c].st = "attempt"]
    /\ UNCHANGED <<b_pc, batch, max_concurrent, results, pipeVars, rlVars, animVars, pagVars, fullVars, evVars, czVars, schVars, syVars>>

\* base.py 69: an attempt begins with the call of rate_limiter.acquire()
ScrapeAcquire(c) ==
    /\ b_pc = "running" /\ task[c].st = "attempt"
    /\ rl_pc[c] = "ready"
    /\ rl_pc' = [rl_pc EXCEPT ![c] = "waiting"]
    /\ task' = [task EXCEPT ![c].st = "acquiring", ![c].acquires = @ + 1]
    /\ UNCHANGED <<b_pc, batch, max_concurrent, sem, results, tokens, last_update,
                   lock, wake, clock, completions, pipeVars, animVars, pagVars, fullVars, evVars, czVars, schVars, syVars>>

\* base.py 72-80, 62-66, 97-101: acquire() has returned and the fetch ends
\* with outcome o. A result is returned; an exception tenacity retries, if
\* attempts are left, starts the next attempt; any other exception, and
\* tenacity's RetryError after the last attempt, is caught by
\* scrape_with_semaphore and becomes a result with success false. The
\* semaphore is released when the task returns. Before a retry tenacity
\* sleeps, for wait_min seconds at least.
FetchOutcome(c, o) ==
    /\ b_pc = "running" /\ task[c].st = "acquiring"
    /\ rl_pc[c] = "ready"
    /\ LET n == task[c].attempts + 1
       IN IF Raised(o) = "none"
          THEN /\ task' = [task EXCEPT ![c] = [@ EXCEPT !.st = "done", !.attempts = n,
                                                        !.prev = o,
                                                        !.result = strategy_result(c, o)]]
               /\ sem' = sem + 1
          ELSE IF retry_if_exception_type(Raised(o)) /\ n < stop_after_attempt
          THEN /\ task' = [task EXCEPT ![c] = [@ EXCEPT !.st = "backoff", !.attempts = n,
                                                        !.prev = o,
                                                        !.until = clock + wait_min]]
               /\ sem' = sem
          ELSE /\ task' = [task EXCEPT ![c] = [@ EXCEPT !.st = "done", !.attempts = n,
                                                        !.prev = o,
                                                        !.result = caught_result(c,
                                                            IF retry_if_exception_type(Raised(o))
                                                            THEN "RetryError" ELSE Raised(o))]]
               /\ sem' = sem + 1
    /\ UNCHANGED <<b_pc, batch, max_concurrent, results, pipeVars, rlVars, animVars, pagVars, fullVars, evVars, czVars, schVars, syVars>>

\* base.py 62-69: tenacity's sleep is over (at its deadline or later) and
\* scrape is called again
RetryWaitOver(c) ==
    /\ b_pc = "running" /\ task[c].st = "backoff"
    /\ clock >= task[c].until
    /\ task' = [task EXCEPT ![c].st = retry_entry]
    /\ UNCHANGED <<b_pc, batch, max_concurrent, sem, results, pipeVars, rlVars, animVars, pagVars, fullVars, evVars, czVars, schVars, syVars>>

\* base.py 104: every task has returned, gather returns the results
BatchReturn ==
    /\ b_pc = "running"
    /\ \A i \in 1..Len(batch) : task[batch[i]].st = "done"
    /\ results' = gather(batch, task)
    /\ b_pc' = "returned"
    /\ UNCHANGED <<batch, max_concurrent, sem, task, pipeVars, rlVars, animVars, pagVars, fullVars, evVars, czVars, schVars, syVars>>

\* the deadlines of the sleeps under way: asyncio.sleep in acquire() and
\* tenacity's sleep before a retry
Deadlines ==
    {wake : c \in {x \in Callers : rl_pc[x] = "sleeping"}}
        \cup {task[c].until : c \in {x \in Callers : task[x].st = "backoff"}}

\* the event-loop clock reaches the next deadline
SleepElapses ==
    /\ \E t \in Deadlines :
        /\ clock < t
        /\ \A x \in Deadlines : clock < x => t <= x
        /\ clock' = t
    /\ UNCHANGED <<tokens, last_update, lock, rl_pc, wake, completions, pipeVars, auxVars>>

\* --------------------------- AnimalScraper.scrape_listing_with_pagination
\* the listing sources: the number of items on each page
Sources == [1..(MaxPages + 1) -> 0..MaxItems]

\* animal_scraper.py 86-136: the items scrape_listing_page returns for page
\* p, in the order of the page; an item is named by its page and position
page_items(src, p) == [i \in 1..src[p] |-> <<p, i>>]

\* animal_scraper.py 158-161: page 1 is the base URL, the others /page/N/
page_url(p) == IF p = 1 THEN <<"base">> ELSE <<"base", "page", p>>

\* the new items put before the ones collected so far
extend_front(all, pets) == pets \o all

\* animal_scraper.py 173: all_pets.extend(pets)
extend(all, pets) == all \o pets

\* a loop that reads one page more than the limit
within_limit_plus_one(p, mp) == p <= mp + 1

\* animal_scraper.py 155: while page <= max_pages
within_limit(p, mp) == p <= mp

\* animal_scraper.py 148-152: the call begins with page 1 and no items
PaginationStart(src, mp) ==
    /\ pg_pc = "idle"
    /\ source' = src /\ max_pages' = mp
    /\ page' = 1 /\ all_pets' = <<>> /\ requests' = <<>>
    /\ pg_pc' = "loop"
    /\ UNCHANGED <<pipeVars, rlVars, animVars, scrVars, fullVars, evVars, czVars, schVars, syVars>>

\* animal_scraper.py 155-176: one turn of the loop: the page is requested;
\* an empty page ends the loop, a page with items is appended
ScrapePage ==
    /\ pg_pc = "loop" /\ within_limit(page, max_pages)
    /\ requests' = Append(requests, page_url(page))
    /\ LET pets == page_items(source, page)
       IN IF pets = <<>>
          THEN /\ pg_pc' = "returned"
               /\ UNCHANGED <<page, all_pets>>
          ELSE /\ all_pets' = extend(all_pets, pets)
               /\ page' = page + 1
               /\ UNCHANGED pg_pc
    /\ UNCHANGED <<source, max_pages, pipeVars, rlVars, animVars, scrVars, fullVars, evVars, czVars, schVars, syVars>>

\* animal_scraper.py 155, 178: max_pages pages were read, the loop ends
PageLimit ==
    /\ pg_pc = "loop" /\ ~within_limit(page, max_pages)
    /\ pg_pc' = "returned"
    /\ UNCHANGED <<source, max_pages, page, all_pets, requests,
                   pipeVars, rlVars, animVars, scrVars, fullVars, evVars, czVars, schVars, syVars>>

\* ------------------------------ run_full_scrape, statement by statement
\* a full scrape that asks for the sync before it completes the job
run_full_scrape_sync_first ==
    <<"start_job", "SCRAPE_STARTED", "discover_and_categorize", "_scrape_animals",
      "_scrape_content", "SYNC_REQUIRED", "complete_job", "SCRAPE_COMPLETED">>

\* orchestrator.py 46-83: the statements of run_full_scrape in source order
run_full_scrape ==
    <<"start_job", "SCRAPE_STARTED", "discover_and_categorize", "_scrape_animals",
      "_scrape_content", "complete_job", "SCRAPE_COMPLETED", "SYNC_REQUIRED">>

\* orchestrator.py 50: the statements from the third on are inside try
try_from == 3

\* the statements that can raise: the store and the two sub-pipelines;
\* emit_event (events.py 86-97) and discover_and_categorize
\* (sitemap_crawler.py 24-32) catch what is raised inside them
MayRaise == {"start_job", "_scrape_animals", "_scrape_content", "complete_job",
             "fail_job"}

\* orchestrator.py 40-44: run_full_scrape is called
FullCall ==
    /\ f_pc = 0 /\ f_job < MaxFullRuns
    /\ f_job' = f_job + 1
    /\ f_pc' = 1
    /\ UNCHANGED <<f_log, f_result, pipeVars, rlVars, animVars, scrVars, pagVars, evVars, czVars, schVars, syVars>>

\* orchestrator.py 46-83, 93: the next statement is executed, or raises;
\* inside try the exception is caught by the handler of line 93, before try
\* it leaves the call
FullStatement(raises) ==
    /\ f_pc \in 1..Len(run_full_scrape)
    /\ LET stmt == run_full_scrape[f_pc]
       IN IF raises /\ stmt \in MayRaise
          THEN /\ f_pc' = IF f_pc >= try_from THEN -1 ELSE 0
               /\ f_result' = IF f_pc >= try_from THEN f_result
                              ELSE [f_result EXCEPT ![f_job] = "raised"]
               /\ UNCHANGED f_log
          ELSE /\ f_log' = Append(f_log, [job |-> f_job, step |-> stmt])
               /\ f_pc' = f_pc + 1
               /\ UNCHANGED f_result
    /\ UNCHANGED <<f_job, pipeVars, rlVars, animVars, scrVars, pagVars, evVars, czVars, schVars, syVars>>

\* orchestrator.py 85-91: the result dict is returned
FullReturn ==
    /\ f_pc = Len(run_full_scrape) + 1
    /\ f_result' = [f_result EXCEPT ![f_job] = "completed"]
    /\ f_pc' = 0
    /\ UNCHANGED <<f_job, f_log, pipeVars, rlVars, animVars, scrVars, pagVars, evVars, czVars, schVars, syVars>>

\* orchestrator.py 93-99: fail_job, SCRAPE_FAILED, raise; when fail_job (an
\* UPDATE executed in the session, scrape_repository.py 103-113) raises, its
\* exception leaves the handler and the call at once
FullExcept(raises) ==
    /\ f_pc = -1
    /\ f_log' = IF raises /\ "fail_job" \in MayRaise
                THEN f_log
                ELSE f_log \o <<[job |-> f_job, step |-> "fail_job"],
                                [job |-> f_job, step |-> "SCRAPE_FAILED"]>>
    /\ f_result' = [f_result EXCEPT ![f_job] = "raised"]
    /\ f_pc' = 0
    /\ UNCHANGED <<f_job, pipeVars, rlVars, animVars, scrVars, pagVars, evVars, czVars, schVars, syVars>>

\* ----------------------------------------------------------- EventEmitter
\* the list without its first element equal to x; the list itself when x
\* is not in it
RECURSIVE remove(_, _)
remove(l, x) ==
    IF l = <<>> THEN <<>>
    ELSE IF Head(l) = x THEN Tail(l)
    ELSE <<Head(l)>> \o remove(Tail(l), x)

\* the registrations the emitter holds
Registered ==
    Len(global_listeners)
        + Len(listeners["scrape_completed"]) + Len(listeners["sync_required"])

\* events.py 47-51: on. The four registration calls are synchronous; the
\* model takes them between emits, the tasks of an emit being fixed when
\* emit is called.
On(t, hd) ==
    /\ e_pc = "idle"
    /\ Registered < MaxListeners
    /\ listener_keys' = listener_keys \cup {t}
    /\ listeners' = [listeners EXCEPT ![t] = Append(@, hd)]
    /\ UNCHANGED <<global_listeners, e_pc, e_type, e_tasks,
                   pipeVars, rlVars, animVars, scrVars, pagVars, fullVars, czVars, schVars, syVars>>

\* events.py 53-55: on_any
OnAny(hd) ==
    /\ e_pc = "idle"
    /\ Registered < MaxListeners
    /\ global_listeners' = Append(global_listeners, hd)
    /\ UNCHANGED <<listener_keys, listeners, e_pc, e_type, e_tasks,
                   pipeVars, rlVars, animVars, scrVars, pagVars, fullVars, czVars, schVars, syVars>>

\* events.py 57-63: off; list.remove takes out the first equal element and
\* raises ValueError, which is swallowed, when there is none
Off(t, hd) ==
    /\ e_pc = "idle"
    /\ listeners' = IF t \in listener_keys
                    THEN [listeners EXCEPT ![t] = remove(@, hd)]
                    ELSE listeners
    /\ UNCHANGED <<listener_keys, global_listeners, e_pc, e_type, e_tasks,
                   pipeVars, rlVars, animVars, scrVars, pagVars, fullVars, czVars, schVars, syVars>>

\* events.py 65-70: off_any
OffAny(hd) ==
    /\ e_pc = "idle"
    /\ global_listeners' = remove(global_listeners, hd)
    /\ UNCHANGED <<listener_keys, listeners, e_pc, e_type, e_tasks,
                   pipeVars, rlVars, animVars, scrVars, pagVars, fullVars, czVars, schVars, syVars>>

\* a dispatch that forgets the type of the event
matching_any_type(keys, ls, gl, t) ==
    LET other == CHOOSE x \in EventTypes : x # t
    IN [i \in 1..Len(ls[t]) |-> [h |-> ls[t][i], via |-> "type"]]
       \o [i \in 1..Len(ls[other]) |-> [h |-> ls[other][i], via |-> "type"]]
       \o [i \in 1..Len(gl) |-> [h |-> gl[i], via |-> "any"]]

\* events.py 77-83: the handlers emit makes a task for: those of the event's
\* type in list order, then the global ones
matching(keys, ls, gl, t) ==
    (IF t \in keys THEN [i \in 1..Len(ls[t]) |-> [h |-> ls[t][i], via |-> "type"]]
     ELSE <<>>)
    \o [i \in 1..Len(gl) |-> [h |-> gl[i], via |-> "any"]]

\* a wrapper that lets the exception through
safe_call_unprotected(outcome) == outcome

\* events.py 88-97: _safe_call logs the exception of the handler and
\* returns
safe_call(outcome) == "returned"

\* an await that is over when the first task is
await_first(ts) == ts = <<>> \/ \E i \in 1..Len(ts) : ts[i].st = "done"

\* events.py 85-86: gather is awaited when there are tasks; it is over when
\* every task is
await_gather(ts) == \A i \in 1..Len(ts) : ts[i].st = "done"

\* events.py 72-83: emit is called; the tasks are created, none has run yet
EmitCall(t) ==
    /\ e_pc = "idle"
    /\ e_type' = t
    /\ e_tasks' = [i \in 1..Len(matching(listener_keys, listeners, global_listeners, t)) |->
                     [h |-> matching(listener_keys, listeners, global_listeners, t)[i].h,
                      via |-> matching(listener_keys, listeners, global_listeners, t)[i].via,
                      st |-> "pending", outcome |-> "none", result |-> "none"]]
    /\ e_pc' = "gather"
    /\ UNCHANGED <<listener_keys, listeners, global_listeners,
                   pipeVars, rlVars, animVars, scrVars, pagVars, fullVars, czVars, schVars, syVars>>

\* events.py 88-91: the event loop starts a task: the handler is invoked
HandlerStart(i) ==
    /\ e_pc = "gather" /\ i \in 1..Len(e_tasks)
    /\ e_tasks[i].st = "pending"
    /\ e_tasks' = [e_tasks EXCEPT ![i].st = "running"]
    /\ UNCHANGED <<listener_keys, listeners, global_listeners, e_pc, e_type,
                   pipeVars, rlVars, animVars, scrVars, pagVars, fullVars, czVars, schVars, syVars>>

\* events.py 88-97: the handler returns or raises, and the task ends with
\* what _safe_call makes of it
HandlerEnd(i, outcome) ==
    /\ e_pc = "gather" /\ i \in 1..Len(e_tasks)
    /\ e_tasks[i].st = "running"
    /\ e_tasks' = [e_tasks EXCEPT ![i] = [@ EXCEPT !.st = "done", !.outcome = outcome,
                                                   !.result = safe_call(outcome)]]
    /\ UNCHANGED <<listener_keys, listeners, global_listeners, e_pc, e_type,
                   pipeVars, rlVars, animVars, scrVars, pagVars, fullVars, czVars, schVars, syVars>>

\* events.py 85-86: the await of gather is over and emit returns;
\* return_exceptions=True makes gather return whatever the tasks ended with
EmitReturn ==
    /\ e_pc = "gather"
    /\ await_gather(e_tasks)
    /\ e_pc' = "idle" /\ e_type' = "none" /\ e_tasks' = <<>>
    /\ UNCHANGED <<listener_keys, listeners, global_listeners,
                   pipeVars, rlVars, animVars, scrVars, pagVars, fullVars, czVars, schVars, syVars>>

\* ---------------------------------------------------------- URLCategorizer
\* url_categorizer.py 23-49: the pattern groups in the order of PATTERNS,
\* each with the type it gives; a URL is modelled by the set of groups whose
\* regular expression finds a match in it
PATTERNS == <<"animal", "adoption_list", "service", "tips", "ignored">>

\* the URLs: every combination of matching groups
UrlShapes == SUBSET {PATTERNS[i] : i \in 1..Len(PATTERNS)}

\* url_categorizer.py 25-48, 89: the priority of each type
PriorityOf(ty) ==
    CASE ty = "animal" -> 1
      [] ty = "adoption_list" -> 2
      [] ty = "service" -> 3
      [] ty = "tips" -> 4
      [] ty = "general" -> 5
      [] OTHER -> 99

\* url_categorizer.py 69-91: the type of the first pattern of PATTERNS that
\* matches, GENERAL when none does
categorize(u) ==
    IF \E i \in 1..Len(PATTERNS) : PATTERNS[i] \in u
    THEN PATTERNS[CHOOSE i \in 1..Len(PATTERNS) :
                     PATTERNS[i] \in u /\ \A k \in 1..(i - 1) : PATTERNS[k] \notin u]
    ELSE "general"

\* url_categorizer.py 132-144: the URLs whose type is not IGNORED, sorted by
\* priority (the sort is stable: equal priorities keep their order)
RECURSIVE by_priority(_, _)
by_priority(us, pr) ==
    IF pr > 5 THEN <<>>
    ELSE SelectSeq(us, LAMBDA u : PriorityOf(categorize(u)) = pr) \o by_priority(us, pr + 1)

filter_scrapable(us) ==
    by_priority(SelectSeq(us, LAMBDA u : categorize(u) # "ignored"), 1)

\* filter_scrapable is called with a list of URLs
FilterScrapable(us) ==
    /\ cz_urls = <<>>
    /\ cz_urls' = us
    /\ cz_scrapable' = filter_scrapable(us)
    /\ UNCHANGED <<pipeVars, rlVars, animVars, scrVars, pagVars, fullVars, evVars, schVars, syVars>>

\* --------------------------------------------------------- ScrapeScheduler
\* a callback without its try/except
callback_outcome_unprotected(o) == o

\* scheduler.py 76-101: each callback awaits the orchestrator inside
\* try/except Exception and logs the failure: it returns either way
callback_outcome(o) == "returned"

\* scheduler.py 103-109, 153: start
SchedulerStart ==
    /\ sch_state = "new"
    /\ sch_state' = "running"
    /\ UNCHANGED <<cb, cb_runs, cb_failed, cb_escaped,
                   pipeVars, rlVars, animVars, scrVars, pagVars, fullVars, evVars, czVars, syVars>>

\* scheduler.py 47-73: the trigger of job j fires and the running scheduler
\* invokes the job's callback as a coroutine on the event loop
Trigger(j) ==
    /\ sch_state = "running" /\ cb[j] = "idle"
    /\ cb_runs[j] < MaxTriggers
    /\ cb' = [cb EXCEPT ![j] = "running"]
    /\ cb_runs' = [cb_runs EXCEPT ![j] = @ + 1]
    /\ UNCHANGED <<sch_state, cb_failed, cb_escaped,
                   pipeVars, rlVars, animVars, scrVars, pagVars, fullVars, evVars, czVars, syVars>>

\* scheduler.py 76-101: the orchestrator call of the callback returns or
\* raises, and the callback ends
CallbackEnd(j, o) ==
    /\ cb[j] = "running"
    /\ cb' = [cb EXCEPT ![j] = "idle"]
    /\ cb_failed' = [cb_failed EXCEPT ![j] = @ \/ o = "raised"]
    /\ cb_escaped' = (cb_escaped \/ callback_outcome(o) = "raised")
    /\ UNCHANGED <<sch_state, cb_runs,
                   pipeVars, rlVars, animVars, scrVars, pagVars, fullVars, evVars, czVars, syVars>>

\* scheduler.py 111-116, 163-166: shutdown is a plain function called from
\* the coroutine run_scheduler on the event loop the callbacks run on; while
\* it executes no callback can take a step, so a callback that was in
\* progress when it is called is in progress when it returns
Shutdown ==
    /\ sch_state = "running"
    /\ sch_state' = "stopped"
    /\ UNCHANGED <<cb, cb_runs, cb_failed, cb_escaped,
                   pipeVars, rlVars, animVars, scrVars, pagVars, fullVars, evVars, czVars, syVars>>

\* scheduler.py 166-172: run_scheduler returns after shutdown and
\* asyncio.run cancels what is left on the loop
CallbackCancelled(j) ==
    /\ sch_state = "stopped" /\ cb[j] = "running"
    /\ cb' = [cb EXCEPT ![j] = "cancelled"]
    /\ UNCHANGED <<sch_state, cb_runs, cb_failed, cb_escaped,
                   pipeVars, rlVars, animVars, scrVars, pagVars, fullVars, evVars, czVars, syVars>>

\* -------------------------------------- ContentUploader.sync_all_animals
\* animal_repository.py 65-73: the first `limit` rows that are AVAILABLE and
\* not synced
get_unsynced(un, limit) ==
    LET l == SelectSeq(SyncRows, LAMBDA a : a \in un)
    IN SubSeq(l, 1, IF Len(l) < limit THEN Len(l) ELSE limit)

\* content_uploader.py 36-47: the call, on a table with the unsynced rows S,
\* of an uploader with batch size bs
SyncCall(S, bs) ==
    /\ sy_pc = "idle"
    /\ unsynced' = S /\ batch_size' = bs
    /\ sy_batch' = <<>>
    /\ sy_pc' = "fetch"
    /\ UNCHANGED <<pipeVars, rlVars, animVars, scrVars, pagVars, fullVars, evVars, czVars, schVars>>

\* content_uploader.py 48-59: a turn of `while True`: the next batch is
\* read; the loop is left when it is empty
GetUnsynced ==
    /\ sy_pc = "fetch"
    /\ LET b == get_unsynced(unsynced, batch_size)
       IN /\ sy_batch' = b
          /\ sy_pc' = IF b = <<>> THEN "phase2" ELSE "batch"
    /\ UNCHANGED <<unsynced, batch_size,
                   pipeVars, rlVars, animVars, scrVars, pagVars, fullVars, evVars, czVars, schVars>>

\* content_uploader.py 61-109: the upload of the next animal of the batch
\* returns a file id (mark_synced), returns None or raises (the row is only
\* logged as failed)
SyncAnimal(o) ==
    /\ sy_pc = "batch" /\ sy_batch # <<>>
    /\ unsynced' = IF o = "file_id" THEN unsynced \ {Head(sy_batch)} ELSE unsynced
    /\ sy_batch' = Tail(sy_batch)
    /\ UNCHANGED <<sy_pc, batch_size,
                   pipeVars, rlVars, animVars, scrVars, pagVars, fullVars, evVars, czVars, schVars>>

\* content_uploader.py 111-112, 48: the batch is committed and the loop
\* starts its next turn
BatchCommit ==
    /\ sy_pc = "batch" /\ sy_batch = <<>>
    /\ sy_pc' = "fetch"
    /\ UNCHANGED <<unsynced, sy_batch, batch_size,
                   pipeVars, rlVars, animVars, scrVars, pagVars, fullVars, evVars, czVars, schVars>>

\* ------------------------------------------------------------------- Next
EntitySteps ==
    \/ AnimalsBegin
    \/ AnimalsBeginError
    \/ \E S \in SUBSET Pets : ScrapeListing(S)
    \/ ListingRaised
    \/ CardSaved
    \/ CardSaveError
    \/ CardNotSuccess
    \/ CardScrapeRaised
    \/ MarkAdopted
    \/ MarkAdoptedError
    \/ AnimalsReturn

ContentSteps ==
    \/ \E S \in SUBSET ContentUrls, k \in 0..MaxOther : Discover(S, k)
    \/ DiscoverError
    \/ P1Success
    \/ P1NotSuccess
    \/ P1Raised
    \/ RoundBegin
    \/ RoundNothingFailed
    \/ GetFailedError
    \/ RetrySuccess
    \/ RetryNotSuccess
    \/ RetryRaised
    \/ RoundBreak
    \/ RoundContinue
    \/ ContentEnd

CommonSteps ==
    \/ CompleteRun
    \/ ExceptRun
    \/ Crash
    \/ Tick
    \/ fix_stale_jobs
    \/ fix_stale_jobs_none

\* One run, of any of the three variants, on an empty job table
RunFirst == \E v \in {"full", "animals", "content"} : next_id = 1 /\ StartRun(v)

\* Repeated entity-only runs
RunEntity == next_id <= MaxJobs /\ StartRun("animals")

\* Repeated content-only runs
RunContent == next_id <= MaxJobs /\ StartRun("content")

Next == RunFirst \/ EntitySteps \/ ContentSteps \/ CommonSteps

NextEntity == RunEntity \/ EntitySteps \/ CommonSteps

NextContent == RunContent \/ ContentSteps \/ CommonSteps

NextRate ==
    \/ \E c \in Callers : AcquireCall(c)
    \/ \E c \in Callers : AcquireEnter(c)
    \/ \E c \in Callers : AcquireWake(c)
    \/ ClockTick

NextRepo ==
    \/ \E u \in AllUrls : RepoUpsert(u)
    \/ \E u \in AllUrls : RepoMarkSuccess(u)
    \/ \E u \in AllUrls : RepoMarkFailed(u)

NextAnimals ==
    \/ \E d \in Data : UpsertCall(d)
    \/ \E d \in Data : UpsertNoReference(d)

NextScrape ==
    \/ \E b \in Batches, m \in 1..MaxConcurrent : StartBatch(b, m)
    \/ \E c \in Callers : TakeSemaphore(c)
    \/ \E c \in Callers : ScrapeAcquire(c)
    \/ \E c \in Callers : AcquireEnter(c)
    \/ \E c \in Callers : AcquireWake(c)
    \/ \E c \in Callers, o \in Outcomes : FetchOutcome(c, o)
    \/ \E c \in Callers : RetryWaitOver(c)
    \/ BatchReturn
    \/ SleepElapses

NextPagination ==
    \/ \E src \in Sources, mp \in 1..MaxPages : PaginationStart(src, mp)
    \/ ScrapePage
    \/ PageLimit

NextFull ==
    \/ FullCall
    \/ \E raises \in BOOLEAN : FullStatement(raises)
    \/ FullReturn
    \/ \E raises \in BOOLEAN : FullExcept(raises)

NextEvents ==
    \/ \E t \in EventTypes, hd \in Handlers : On(t, hd)
    \/ \E hd \in Handlers : OnAny(hd)
    \/ \E t \in EventTypes, hd \in Handlers : Off(t, hd)
    \/ \E hd \in Handlers : OffAny(hd)
    \/ \E t \in EventTypes : EmitCall(t)
    \/ \E i \in 1..MaxListeners : HandlerStart(i)
    \/ \E i \in 1..MaxListeners, o \in {"returned", "raised"} : HandlerEnd(i, o)
    \/ EmitReturn

NextCategorize ==
    \E n \in 0..MaxBatch : \E us \in [1..n -> UrlShapes] : FilterScrapable(us)

NextScheduler ==
    \/ SchedulerStart
    \/ \E j \in SchedJobs : Trigger(j)
    \/ \E j \in SchedJobs, o \in {"returned", "raised"} : CallbackEnd(j, o)
    \/ Shutdown
    \/ \E j \in SchedJobs : CallbackCancelled(j)

NextSync ==
    \/ \E S \in SUBSET {SyncRows[i] : i \in 1..Len(SyncRows)}, bs \in 1..MaxBatchSize :
          SyncCall(S, bs)
    \/ GetUnsynced
    \/ \E o \in {"file_id", "none", "raised"} : SyncAnimal(o)
    \/ BatchCommit

Spec == Init /\ [][Next]_vars

SpecEntity == Init /\ [][NextEntity]_vars

SpecContent == InitEmpty /\ [][NextContent]_vars

SpecRate == InitEmpty /\ [][NextRate]_vars

SpecRepo == InitEmpty /\ [][NextRepo]_vars

SpecAnimals == InitEmpty /\ [][NextAnimals]_vars

SpecSync == InitEmpty /\ [][NextSync]_vars

\* the coroutine of the call is scheduled as long as it has a step to take
SpecSyncFair == SpecSync /\ WF_vars(NextSync)

SpecScheduler == InitEmpty /\ [][NextScheduler]_vars

SpecCategorize == InitEmpty /\ [][NextCategorize]_vars

SpecEvents == InitEmpty /\ [][NextEvents]_vars

\* The event loop runs the tasks emit created and resumes emit
SpecEventsFair == SpecEvents /\ WF_vars(NextEvents)

SpecFull == InitEmpty /\ [][NextFull]_vars

SpecPagination == InitEmpty /\ [][NextPagination]_vars

\* the coroutine of the call is scheduled until it returns
SpecPaginationFair == SpecPagination /\ WF_vars(NextPagination)

\* scrape_batch over up to two URLs with the rate limiter of the scraper.
\* Time passes while a task sleeps, in acquire() or before a retry.
SpecScrape == InitEmpty /\ [][NextScrape]_vars

\* The event loop runs every task that can run, and sleeps end
SpecScrapeFair == SpecScrape /\ WF_vars(NextScrape)

\* The event loop keeps running the coroutine of the run: a step that can be
\* taken is taken
SpecFair == Spec /\ WF_vars(Next)

\* ------------------------------------------------------------- properties
Min(a, b) == IF a < b THEN a ELSE b
Max(a, b) == IF a > b THEN a ELSE b
Terminal == {"completed", "failed"}
InSitemap(u) == \E i \in 1..Len(categorized) : categorized[i] = u

\* C1: when an exception escapes the job body after start_job, then once the
\* call has returned to its caller the committed job record is FAILED, with
\* error_message and completed_at set.
C1_RaisedRunIsRecordedFailed ==
    (pc = "idle" /\ result = "raised") =>
        /\ jobs[jid].status = "failed"
        /\ jobs[jid].error_message # "none"
        /\ jobs[jid].completed_at # NoTime

\* C2: under any interleaving of job runs and fix_stale_jobs calls, a job
\* record that is COMPLETED or FAILED never changes its status again.
C2_TerminalStatusIsFinal ==
    [][\A j \in JobIds : jobs[j].status \in Terminal => jobs'[j].status = jobs[j].status]_vars

C4_SaveFailureIsTrackedFailed ==
    pc = "animals_done" =>
        /\ a_cnt.discovered = a_cnt.scraped + a_cnt.failed
        /\ \A p \in h.save_failed : s_urls[p].st = "failed"

\* C5: a phase-2 round is executed only if it is the first one or the round
\* before it converted at least one failed URL to a success.
C5_NoRoundAfterFruitlessRound ==
    (pc = "retry" /\ h.rounds >= 2) => h.prev_success > 0

C7_CountsReconcile ==
    \A j \in JobIds :
        jobs[j].status = "completed" =>
            jobs[j].urls_discovered = jobs[j].urls_scraped + jobs[j].urls_failed

\* C8: the number of acquire() calls that complete within a window of T ticks
\* is at most burst + requests_per_second * T (here for every window that
\* starts and ends with a completion, taken one tick longer than the
\* distance of the two; in token units, requests_per_second * T is T).
C8_ThroughputBound ==
    \A i, j \in 1..Len(completions) :
        i <= j =>
            (j - i + 1) * TokenUnit
                <= burst * TokenUnit + (completions[j] - completions[i] + 1)

\* C9: when the process dies during a run, the URL-tracking status (SUCCESS
\* or FAILED) of every item the run has finished with is in the committed
\* table.
C9_CrashKeepsFinishedItems ==
    [][Crash => \A u \in AllUrls :
                    s_urls[u].st \in {"success", "failed"} => urls'[u].st = s_urls[u].st]_vars

\* whether the run of job j has scraped at least one URL
Progress(j) ==
    IF pc # "idle" /\ jid = j THEN a_cnt.scraped + c_cnt.scraped > 0 ELSE progress[j]

\* C10: a fix_stale_jobs call changes exactly the stale RUNNING jobs: each
\* becomes COMPLETED if its run had scraped at least one URL and FAILED
\* otherwise, with completed_at set; every other job record is unchanged.
C10_StaleJobsReconciledByProgress ==
    [][fix_stale_jobs =>
          \A j \in JobIds :
              IF j \in StaleJobs
              THEN /\ jobs'[j].status = IF Progress(j) THEN "completed" ELSE "failed"
                   /\ jobs'[j].completed_at # NoTime
              ELSE jobs'[j] = jobs[j]]_vars

\* the URL at retry_count >= max_retries with status FAILED
Capped(u) == urls[u].st = "failed" /\ urls[u].rc >= max_retries

\* this step is a fetch of u by a job run: phase 1 moves past it, or a
\* phase-2 round takes it off its list
FetchStep(u) ==
    \/ /\ pc = "content" /\ ci <= Len(categorized) /\ categorized[ci] = u
       /\ ci' = ci + 1
    \/ /\ pc = "retry" /\ failed_urls # <<>> /\ Head(failed_urls) = u
       /\ failed_urls' = Tail(failed_urls)

\* C11: a URL that is FAILED with retry_count >= max_retries is not returned
\* by get_failed and is not fetched again by any later job run, in phase 1
\* or in phase 2.
C11_CappedUrlIsNeverFetched ==
    [][\A u \in ContentUrls :
          Capped(u) => /\ \A i \in 1..Len(get_failed(urls, max_retries)) :
                             get_failed(urls, max_retries)[i] # u
                       /\ ~FetchStep(u)]_vars

C13_RetryCountOnlyGrowsByMarkFailed ==
    [][\A u \in AllUrls :
          /\ s_urls'[u].rc >= s_urls[u].rc
          /\ s_urls'[u].rc # s_urls[u].rc =>
                /\ s_urls' = mark_failed(s_urls, u)
                /\ s_urls'[u].rc = s_urls[u].rc + 1
          /\ (s_urls' = mark_failed(s_urls, u) /\ s_urls[u].st # "absent") =>
                s_urls'[u].rc = s_urls[u].rc + 1]_vars

\* C13 witness: a URL marked failed twice, then upserted again and marked
\* successful, still holds its count
C13_Witness ==
    \E u \in AllUrls : s_urls[u].st = "success" /\ s_urls[u].rc = 2

\* the job row as the run's session sees it, uncommitted statements applied
SessionJob(j) == IF j = jid THEN ApplyOps(jobs[j], job_ops) ELSE jobs[j]

\* C14: for every job record, committed or as written in the run's session,
\* completed_at is set if and only if the status is COMPLETED or FAILED.
C14_CompletedAtIffTerminal ==
    \A j \in JobIds :
        /\ jobs[j].status # "absent" =>
              (jobs[j].completed_at # NoTime <=> jobs[j].status \in Terminal)
        /\ SessionJob(j).status # "absent" =>
              (SessionJob(j).completed_at # NoTime <=> SessionJob(j).status \in Terminal)

\* C14 witness: a job reconciled by fix_stale_jobs and then completed by its
\* run, and so written by both
C14_Witness ==
    \E j \in JobIds :
        /\ jobs[j].status = "completed"
        /\ jobs[j].error_message = "timed_out"
        /\ jobs[j].completed_at # NoTime

\* the calls that gave reference r a value for column k
GaveValue(r, k) ==
    {i \in 1..Len(calls) : calls[i].ref = r /\ calls[i].fields[k] # "missing"}

\* C15: after any sequence of upserts, a reference number that was upserted
\* has exactly one stored record, and each column of it holds the value of
\* the latest upsert of that reference that gave the column - after two
\* upserts of one reference, the values of the second.
C15_UpsertKeepsOneRecordWithLatestValues ==
    \A r \in Refs :
        LET rows == {i \in 1..Len(records) : records[i].ref = r}
            ups == {i \in 1..Len(calls) : calls[i].ref = r}
        IN /\ Cardinality(rows) = IF ups = {} THEN 0 ELSE 1
           /\ \A i \in rows : \A k \in Keys :
                 records[i].fields[k] =
                    IF GaveValue(r, k) = {} THEN "null"
                    ELSE calls[CHOOSE n \in GaveValue(r, k) :
                                   \A m \in GaveValue(r, k) : m <= n].fields[k]

\* C15 witness: two upserts of one reference with different values in every
\* column, and one record holding the second values
C15_Witness ==
    /\ Len(calls) = 2
    /\ calls[1].ref = calls[2].ref /\ calls[1].ref # "none"
    /\ \A k \in Keys : /\ calls[1].fields[k] # "missing"
                       /\ calls[2].fields[k] # "missing"
                       /\ calls[1].fields[k] # calls[2].fields[k]
    /\ Len(records) = 1
    /\ \A k \in Keys : records[1].fields[k] = calls[2].fields[k]
\* ------------------------------------------------------------ scrapers
\* the outcomes tenacity retries: ConnectionError, TimeoutError, OSError
Transient == {"network_error", "timeout"}

\* C16: a scrape call makes at most 3 fetch attempts; an attempt after the
\* first is started only when the attempt before it ended with a network,
\* OS-level or timeout error; an attempt whose strategy result has
\* success false ends the call, and that result is returned, not an error
C16_RetryOnlyAfterTransientError ==
    \A c \in Callers :
        /\ task[c].attempts <= 3
        /\ (task[c].st \in {"backoff", "attempt", "acquiring"} /\ task[c].attempts >= 1)
               => task[c].prev \in Transient
        /\ task[c].prev = "not_success"
               => /\ task[c].st = "done"
                  /\ task[c].result = [url |-> c, success |-> FALSE, error |-> "none"]

\* one call gave up after three timeouts, another returned the strategy's
\* success=false result after its only attempt
C16_Witness ==
    \E c, d \in Callers :
        /\ task[c].st = "done" /\ task[c].attempts = 3 /\ task[c].prev = "timeout"
        /\ task[d].st = "done" /\ task[d].attempts = 1 /\ task[d].prev = "not_success"

\* C17: within one scrape call every fetch attempt follows an acquire() of
\* its own that has returned: a fetch ends only when the call has made one
\* more acquire than fetches and that acquire has returned, and at rest
\* (before an attempt, and when the call is over) the two counts are equal
C17_AcquireBeforeEveryAttempt ==
    /\ [](\A c \in Callers :
            /\ task[c].st \in {"attempt", "backoff", "done"}
                   => task[c].acquires = task[c].attempts
            /\ task[c].st = "acquiring" => task[c].acquires = task[c].attempts + 1)
    /\ [][\A c \in Callers :
            task'[c].attempts # task[c].attempts
                => /\ task'[c].attempts = task[c].attempts + 1
                   /\ task[c].acquires = task'[c].attempts
                   /\ rl_pc[c] = "ready"]_vars

\* a call that made three attempts and three acquires
C17_Witness ==
    \E c \in Callers :
        task[c].st = "done" /\ task[c].attempts = 3 /\ task[c].acquires = 3

\* the URLs whose task is inside "async with semaphore"
InFlight == {c \in Callers : task[c].st \in {"attempt", "acquiring", "backoff"}}

\* C18: while scrape_batch runs, at most max_concurrent URLs are between
\* taking and releasing the semaphore, and every batch that was started
\* returns: the tasks that wait for the semaphore and those that wait for
\* the rate limiter's lock never block each other for ever
C18_BoundedInFlightAndCompletes ==
    /\ [](b_pc = "running" => Cardinality(InFlight) <= max_concurrent)
    /\ (b_pc = "running" ~> b_pc = "returned")

\* both permits are taken: one task sleeps in acquire() holding the rate
\* limiter's lock, the other waits for that lock
C18_Witness ==
    /\ b_pc = "running" /\ Cardinality(InFlight) = max_concurrent
    /\ \E c, d \in Callers :
        /\ task[c].st = "acquiring" /\ rl_pc[c] = "waiting"
        /\ task[d].st = "acquiring" /\ rl_pc[d] = "sleeping" /\ lock = d

\* C19: when scrape_batch returns, the list has one result per input URL,
\* the i-th result being the i-th URL's; a URL whose scrape raised, after
\* its retries ran out or at once, has a result with success false and the
\* error recorded, and every other URL's result is what its scrape returned
C19_OneResultPerUrl ==
    b_pc = "returned" =>
        /\ Len(results) = Len(batch)
        /\ \A i \in 1..Len(batch) :
            LET c == batch[i]
            IN /\ results[i].url = c
               /\ results[i] = task[c].result
               /\ task[c].prev = "success"
                      => results[i] = [url |-> c, success |-> TRUE, error |-> "none"]
               /\ task[c].prev \in Transient
                      => /\ task[c].attempts = stop_after_attempt
                         /\ results[i] = [url |-> c, success |-> FALSE, error |-> "RetryError"]
               /\ task[c].prev = "other_error"
                      => results[i] = [url |-> c, success |-> FALSE, error |-> "Exception"]

\* a batch of two returned: the first URL exhausted its retries, the second
\* succeeded
C19_Witness ==
    /\ b_pc = "returned" /\ Len(batch) = 2 /\ Len(results) = 2
    /\ results[1].error = "RetryError" /\ ~results[1].success
    /\ results[2].success

\* the pages before the first empty page of the source
RECURSIVE LeadingPages(_, _)
LeadingPages(src, p) ==
    IF p > MaxPages + 1 \/ src[p] = 0 THEN p - 1 ELSE LeadingPages(src, p + 1)

\* the items of pages p..k one after the other
RECURSIVE ItemsOfPages(_, _, _)
ItemsOfPages(src, p, k) ==
    IF p > k THEN <<>>
    ELSE [i \in 1..src[p] |-> <<p, i>>] \o ItemsOfPages(src, p + 1, k)

\* C20: when the source has items on pages 1..k, none on page k+1, and
\* k < max_pages, the call returns the items of pages 1..k in page order and
\* has requested the pages 1..k+1, each once
C20_PaginationStopsAtFirstEmptyPage ==
    LET k == LeadingPages(source, 1)
    IN (pg_pc = "returned" /\ k < max_pages)
           => /\ all_pets = ItemsOfPages(source, 1, k)
              /\ requests = [p \in 1..(k + 1) |-> page_url(p)]

\* two pages with items, the third empty, and a limit of three pages
C20_Witness ==
    /\ pg_pc = "returned" /\ max_pages = 3
    /\ source[1] = 2 /\ source[2] = 1 /\ source[3] = 0
    /\ Len(requests) = 3 /\ Len(all_pets) = 3

\* -------------------------------------------------------- orchestration
\* what was executed for job j, in order
StepsOf(j) ==
    LET mine == SelectSeq(f_log, LAMBDA e : e.job = j)
    IN [i \in 1..Len(mine) |-> mine[i].step]

\* C21: a full scrape that returned executed, in this order, start_job,
\* SCRAPE_STARTED, discovery, the entity sub-pipeline, the content
\* sub-pipeline, complete_job, SCRAPE_COMPLETED, SYNC_REQUIRED; and whenever
\* SYNC_REQUIRED was emitted for a job, complete_job was executed for that
\* job before it
C21_FullScrapeStepOrder ==
    /\ \A j \in 1..MaxFullRuns :
        f_result[j] = "completed"
            => StepsOf(j) = <<"start_job", "SCRAPE_STARTED", "discover_and_categorize",
                              "_scrape_animals", "_scrape_content", "complete_job",
                              "SCRAPE_COMPLETED", "SYNC_REQUIRED">>
    /\ \A i \in 1..Len(f_log) :
        f_log[i].step = "SYNC_REQUIRED"
            => \E k \in 1..(i - 1) :
                   f_log[k] = [job |-> f_log[i].job, step |-> "complete_job"]

\* the first call failed in the content sub-pipeline, the second returned
C21_Witness ==
    /\ f_result[1] = "raised" /\ f_result[2] = "completed"
    /\ \E i \in 1..Len(f_log) : f_log[i] = [job |-> 1, step |-> "SCRAPE_FAILED"]
    /\ \E i \in 1..Len(f_log) : f_log[i] = [job |-> 2, step |-> "SYNC_REQUIRED"]

\* ------------------------------------------------------------ event bus
\* how often x occurs in the list l
Count(l, x) == Cardinality({i \in 1..Len(l) : l[i] = x})

\* the step in which emit returns
EmitReturns == e_pc = "gather" /\ e_pc' = "idle"

\* C22: a handler that raises does not stop the others: no task of emit
\* ends with an exception, when emit returns every task it created has been
\* invoked and has run to its end, and every emit returns
C22_HandlerIsolation ==
    /\ [](\A i \in 1..Len(e_tasks) :
            e_tasks[i].st = "done" => e_tasks[i].result = "returned")
    /\ [][EmitReturns
            => \A i \in 1..Len(e_tasks) :
                   e_tasks[i].st = "done" /\ e_tasks[i].outcome \in {"returned", "raised"}]_vars
    /\ (e_pc = "gather" ~> e_pc = "idle")

\* the first handler raised, the second was invoked all the same and
\* returned; emit is about to return
C22_Witness ==
    /\ e_pc = "gather" /\ Len(e_tasks) >= 2
    /\ e_tasks[1].st = "done" /\ e_tasks[1].outcome = "raised"
    /\ e_tasks[2].st = "done" /\ e_tasks[2].outcome = "returned"

\* C23: the tasks emit creates are one per registration of the event's type
\* and one per global registration: a handler is invoked as often as it is
\* in the list of the event's type plus in the global list, a handler that
\* is only in another type's list not at all; and a task is started once
C23_DispatchToMatchingHandlers ==
    /\ [][(e_pc = "idle" /\ e_pc' = "gather")
            => \A hd \in Handlers :
                   Count([i \in 1..Len(e_tasks') |-> e_tasks'[i].h], hd)
                       = Count(listeners[e_type'], hd) + Count(global_listeners, hd)]_vars
    /\ [][\A i \in 1..Len(e_tasks) :
            (e_pc' = "gather" /\ e_tasks[i].st # "pending")
                => e_tasks'[i].st # "pending" /\ e_tasks'[i].h = e_tasks[i].h]_vars
    /\ [][EmitReturns => \A i \in 1..Len(e_tasks) : e_tasks[i].st = "done"]_vars

\* h1 is registered for the event's type and globally and was invoked
\* twice; h2 is registered for the other type only and was not invoked
C23_Witness ==
    /\ e_pc = "gather" /\ e_type = "sync_required"
    /\ listeners["sync_required"] = <<"h1">> /\ global_listeners = <<"h1">>
    /\ listeners["scrape_completed"] = <<"h2">>
    /\ Len(e_tasks) = 2 /\ \A i \in 1..2 : e_tasks[i].st = "done" /\ e_tasks[i].h = "h1"

\* C24: emit returns only when every task it created for the event is over
C24_EmitAwaitsAllHandlers ==
    [][(e_pc = "gather" /\ e_pc' # "gather")
          => \A i \in 1..Len(e_tasks) : e_tasks[i].st = "done"]_vars

\* one handler is over while another is still running: emit has not
\* returned
C24_Witness ==
    /\ e_pc = "gather"
    /\ \E i, k \in 1..Len(e_tasks) : e_tasks[i].st = "done" /\ e_tasks[k].st = "running"

\* C25: when off(t, h) has taken h out of the list of t, the list holds h no
\* more, so that a later emit of t does not invoke h through it, however
\* often on(t, h) was called before
C25_OffUnregistersHandler ==
    [][\A t \in EventTypes, hd \in Handlers :
          Count(listeners'[t], hd) < Count(listeners[t], hd)
              => Count(listeners'[t], hd) = 0]_vars

\* ----------------------------------------------------------- categorizer
\* C26: a URL that matches an ignore pattern has type IGNORED whatever else
\* it matches, and filter_scrapable returns no such URL
C26_IgnoredUrlIsNeverScrapable ==
    /\ \A i \in 1..Len(cz_urls) :
        "ignored" \in cz_urls[i] => categorize(cz_urls[i]) = "ignored"
    /\ \A i \in 1..Len(cz_scrapable) : "ignored" \notin cz_scrapable[i]

\* ------------------------------------------------------------- discovery
\* C27: discovery never sends a run to its exception handler; a content-only
\* or full run whose discovery found nothing (a failed fetch is the empty
\* list) and that reaches its end is recorded COMPLETED with zero discovered
\* URLs
C27_FailedDiscoveryCompletesEmpty ==
    /\ [][pc = "discover" => pc' # "except"]_vars
    /\ [][(pc = "complete" /\ variant \in {"content", "full"}
              /\ categorized = <<>> /\ sitemap_total = 0 /\ result' = "completed")
            => /\ jobs'[jid].status = "completed"
               /\ jobs'[jid].urls_discovered = 0]_vars

\* ------------------------------------------------------------- scheduler
\* C28: an exception of the orchestrator never leaves a scheduled callback:
\* the callback ends, the scheduler's state is what it was, and the job is
\* idle again, ready for its next trigger
C28_ScheduledFailureIsContained ==
    /\ [](~cb_escaped)
    /\ [][\A j \in SchedJobs :
            (cb[j] = "running" /\ cb'[j] = "idle")
                => sch_state' = sch_state /\ cb_runs' = cb_runs]_vars
    /\ [][\A j \in SchedJobs :
            (cb_runs'[j] > cb_runs[j]) => sch_state = "running" /\ cb'[j] = "running"]_vars

\* a job whose earlier run failed in the orchestrator was invoked again by
\* the still-running scheduler
C28_Witness ==
    \E j \in SchedJobs :
        sch_state = "running" /\ cb_failed[j] /\ cb_runs[j] = 2 /\ cb[j] = "running"

\* C29: once shutdown has returned no scheduled callback is running and
\* none starts
C29_NoCallbackAfterShutdown ==
    /\ [](sch_state = "stopped" => \A j \in SchedJobs : cb[j] # "running")
    /\ [][sch_state = "stopped" => \A j \in SchedJobs : cb_runs'[j] = cb_runs[j]]_vars

\* ---------------------------------------------------------- rate limiter
\* C30: acquire is one critical section: at most one caller is inside it,
\* the caller suspended for its deficit holds the lock, while it is held
\* only the holder's own resumption changes tokens or last_update, and the
\* bucket never goes below zero
C30_AcquireIsMutuallyExclusive ==
    /\ [](\A c, d \in Callers :
            (rl_pc[c] = "sleeping" /\ rl_pc[d] = "sleeping") => c = d)
    /\ [](\A c \in Callers : rl_pc[c] = "sleeping" => lock = c)
    /\ [](tokens >= 0)
    /\ [][locked(lock)
            => \/ tokens' = tokens /\ last_update' = last_update
               \/ rl_pc[lock] = "sleeping" /\ rl_pc'[lock] = "ready" /\ ~locked(lock')]_vars

\* one caller is suspended inside the critical section while another waits
\* for the lock
C30_Witness ==
    \E c, d \in Callers :
        c # d /\ rl_pc[c] = "sleeping" /\ lock = c /\ rl_pc[d] = "waiting"

\* ------------------------------------------------------ entity lifecycle
\* C31: a record that is ADOPTED in the committed table or in the session
\* stays ADOPTED in every later step of every run, also when its reference
\* is observed and upserted again
C31_AdoptedIsTerminal ==
    [][\A r \in Refs :
         /\ animals[r] = "adopted" => animals'[r] = "adopted"
         /\ s_animals[r] = "adopted" => s_animals'[r] = "adopted"]_vars

\* a reference adopted by an earlier run was found, upserted and committed
\* in the run in progress
C31_Witness ==
    \E r \in Refs :
        r \in found_refs /\ r \in existing_refs /\ animals[r] = "adopted"

\* ------------------------------------------------------ pagination limit
\* C32: the call requests at most max_pages pages, page 1 at the base URL
\* and page n >= 2 at the base URL plus the page segment n, it returns, and
\* when all max_pages pages have items it returns the items of all of them
C32_PaginationStopsAtMaxPages ==
    /\ [](Len(requests) <= max_pages)
    /\ [](\A n \in 1..Len(requests) :
            requests[n] = IF n = 1 THEN <<"base">> ELSE <<"base", "page", n>>)
    /\ []((pg_pc = "returned" /\ LeadingPages(source, 1) >= max_pages)
            => /\ all_pets = ItemsOfPages(source, 1, max_pages)
               /\ Len(requests) = max_pages)
    /\ (pg_pc = "loop") ~> (pg_pc = "returned")

\* every page up to the limit of three, and the one after it, has items,
\* and the call returned after three requests
C32_Witness ==
    /\ pg_pc = "returned" /\ max_pages = 3
    /\ \A p \in 1..4 : source[p] > 0
    /\ Len(requests) = 3
    /\ Len(all_pets) = source[1] + source[2] + source[3]

\* ------------------------------------------------- content run and store
\* C33: the counts _scrape_content returns have failed >= 0 and
\* scraped <= discovered
C33_ContentCountsAreSane ==
    (pc = "complete" /\ variant = "content")
        => /\ c_cnt.failed >= 0
           /\ c_cnt.scraped <= c_cnt.discovered

\* C34: every URL a retry round of the content sub-pipeline fetches is a
\* URL of the list this run went through in phase 1 (so a content URL)
C34_RetryOnlyThisRunsContentUrls ==
    [][(pc = "retry" /\ failed_urls # <<>> /\ failed_urls' = Tail(failed_urls))
          => /\ Head(failed_urls) \in ContentUrls
             /\ \E i \in 1..Len(categorized) : categorized[i] = Head(failed_urls)]_vars

\* ----------------------------------------------- entity run and its saves
\* C35: the removal step of an entity run leaves AVAILABLE every previously
\* known, available reference whose detail page this run fetched and parsed
\* successfully but failed to save
C35_ParsedButUnsavedIsNotRemoved ==
    [][(pc = "listing" /\ pc' = "animals_done")
          => \A p \in h.save_failed :
                (RefOf[p] \in existing_refs /\ h.pre_animals[RefOf[p]] = "available")
                    => s_animals'[RefOf[p]] = "available"]_vars

\* C36: when the entity sub-pipeline has made its last commit, the URL of
\* every item it saved and committed in this run is SUCCESS in the
\* committed URL table
C36_SavedItemUrlIsSuccess ==
    pc = "animals_done"
        => \A p \in Pets : RefOf[p] \in found_refs => urls[p].st = "success"

\* C37: the removal step of an entity run marks, and announces with
\* ANIMAL_ADOPTED, only references that are not ADOPTED already
C37_RemovedAtMostOnce ==
    [][(pc = "listing" /\ pc' = "animals_done")
          => \A r \in adopted_refs(existing_refs, found_refs) :
                s_animals[r] # "adopted"]_vars

\* ------------------------------------------------------- events of a run
\* C38: a run whose job was started and that has ended emitted
\* SCRAPE_STARTED once and, after it, exactly one of SCRAPE_COMPLETED and
\* SCRAPE_FAILED; SYNC_REQUIRED only together with SCRAPE_COMPLETED and
\* never together with SCRAPE_FAILED
C38_OneStartOneTerminalEvent ==
    \A j \in 1..MaxFullRuns :
        (f_result[j] # "none" /\ Count(StepsOf(j), "start_job") = 1)
            => LET steps == StepsOf(j)
               IN /\ Count(steps, "SCRAPE_STARTED") = 1
                  /\ Count(steps, "SCRAPE_COMPLETED") + Count(steps, "SCRAPE_FAILED") = 1
                  /\ \A i, k \in 1..Len(steps) :
                        (steps[i] = "SCRAPE_STARTED"
                           /\ steps[k] \in {"SCRAPE_COMPLETED", "SCRAPE_FAILED"}) => i < k
                  /\ Count(steps, "SYNC_REQUIRED") > 0
                        => /\ Count(steps, "SCRAPE_COMPLETED") = 1
                           /\ Count(steps, "SCRAPE_FAILED") = 0

\* ------------------------------------------------------------------ sync
\* C39: the loop of sync_all_animals over the batches of unsynced animals
\* ends, whatever the uploads do
C39_SyncLoopEnds == (sy_pc = "fetch") ~> (sy_pc = "phase2")

\* ----------------------------------------------------------- token bucket
\* C40: the bucket never holds less than nothing nor more than burst tokens
C40_TokensWithinBucket ==
    /\ tokens >= 0
    /\ tokens <= burst * TokenUnit

\* the second acquisition came so long after the first that the refill was
\* cut at burst, and it took its token from the full bucket
C40_Witness ==
    /\ Len(completions) = 2
    /\ completions[2] - completions[1] > TokenUnit
    /\ tokens = (burst - 1) * TokenUnit

====
